---- MODULE Spec2Model ----
(***************************************************************************)
(* A model of the numeric simulation layer of langsplain: the tokenizer    *)
(* and its simulated BPE merge trace, the linear-algebra primitives, the   *)
(* sampling pipeline and the mixture-of-experts router.                    *)
(*                                                                         *)
(* Text is a TLA+ string; a token is a string; JavaScript numbers are      *)
(* exact extended rationals (see the section on numbers).                  *)
(***************************************************************************)
EXTENDS Integers, Sequences, FiniteSets, TLC

(***************************************************************************)
(* Bounds of the model.                                                    *)
(***************************************************************************)
\* longest text drawn over Alphabet
MaxLen == 3
\* longest vector of logits or probabilities
MaxVec == 3
\* most rows and most columns of a matrix
MaxDim == 2
\* greatest top-k
MaxTopK == 3
\* most experts of the router
MaxExperts == 3
\* most tokens of an attention sequence
MaxSeq == 2
\* bits of the significand of the floating-point numbers (a double has 53)
SignificandBits == 4
\* most repetitions of a unit in the long BPE inputs
MaxReps == 10

VARIABLES
    text,           \* the argument of tokenize / simulateBPE
    tokCalled,      \* tokenize(text) has returned
    tokens,         \* what tokenize(text) returned
    bpePc,          \* position in simulateBPE: "idle", "start", "loop", "done"
    normalized,     \* simulateBPE: const normalized
    currentTokens,  \* simulateBPE: let currentTokens
    mergeSteps,     \* simulateBPE: const mergeSteps
    stepNum,        \* simulateBPE: let stepNum
    changed,        \* simulateBPE: let changed
    bpeResult,      \* what simulateBPE(text) returned
    call,           \* a call of a pure function: its name and arguments
    returned,       \* the call has returned (or thrown)
    ret,            \* what the call returned
    EMBEDDINGS,     \* tokenizer module: const EMBEDDINGS, one row per token id
    rulePairs,      \* tokenizer module: the pair array of each BPE merge rule
    held,           \* the arrays the caller got from the last getEmbedding / getEmbeddings
    last,           \* the last call of the tokenizer's or the demo's interface and its result
    activeSection,  \* section switcher: let activeSection
    changeHandler,  \* section switcher: let changeHandler, as its typeof
    listeners,      \* section switcher: click / keydown listeners on each tab
    tabState,       \* the class, aria-selected and tabindex of each section tab
    focused,        \* the section whose tab has the focus
    onChangeCalls,  \* the arguments of the calls of onChange by the last event or call
    navLast,        \* the last event or call of the section switcher
    tour,           \* the Tour object, its tooltip and overlay, and the events it dispatched
    tourLast,       \* the last event or call of the tour
    generation,     \* the GenerationDemoUI object, its prompt input and its interval timers
    genLast,        \* the last event of the generation demo
    gradient,       \* the GradientDemoUI object and its interval timers
    gradLast,       \* the last event of the gradient demo
    lossDemo,       \* the LossDemoUI object and its interval timers
    lossLast        \* the last event of the loss demo

tokVars == <<text, tokCalled, tokens>>
bpeVars == <<bpePc, normalized, currentTokens, mergeSteps, stepNum, changed, bpeResult>>
callVars == <<call, returned, ret>>
frameVars == <<EMBEDDINGS, rulePairs, held, last>>
navVars == <<activeSection, changeHandler, listeners, tabState, focused, onChangeCalls, navLast>>
tourVars == <<tour, tourLast>>
uiVars == <<navVars, tourVars>>
pageVars == <<frameVars, uiVars>>
genVars == <<generation, genLast>>
gradVars == <<gradient, gradLast>>
lossVars == <<lossDemo, lossLast>>
demoVars == <<genVars, gradVars, lossVars>>
vars == <<tokVars, bpeVars, callVars, pageVars, demoVars>>

(***************************************************************************)
(* Strings.                                                                *)
(***************************************************************************)
CharAt(s, i) == SubSeq(s, i, i)

\* String.prototype.split(''): the characters of s, in order
Chars(s) == [i \in 1..Len(s) |-> CharAt(s, i)]

RECURSIVE JoinFrom(_, _)
JoinFrom(ss, i) == IF i > Len(ss) THEN "" ELSE ss[i] \o JoinFrom(ss, i + 1)

\* Array.prototype.join(''): the concatenation of a sequence of strings
Join(ss) == JoinFrom(ss, 1)

CharSet(s) == {CharAt(s, i) : i \in 1..Len(s)}

UpperCaseLetters == "ABCDEFGHIJKLMNOPQRSTUVWXYZ"
LowerCaseLetters == "abcdefghijklmnopqrstuvwxyz"
Digits == "0123456789"

\* the lower-case letter of each upper-case letter
LowerOf ==
    [c \in CharSet(UpperCaseLetters) |->
        CharAt(LowerCaseLetters, CHOOSE i \in 1..26 : CharAt(UpperCaseLetters, i) = c)]

LowerChar(c) == IF c \in DOMAIN LowerOf THEN LowerOf[c] ELSE c

RECURSIVE LowerFrom(_, _)
LowerFrom(s, i) ==
    IF i > Len(s) THEN "" ELSE LowerChar(CharAt(s, i)) \o LowerFrom(s, i + 1)

\* String.prototype.toLowerCase
toLowerCase(s) == LowerFrom(s, 1)

\* the regular expression class \s, on the characters the model draws
IsSpace(c) == c \in {" ", "\t", "\n"}

WordChars ==
    CharSet(LowerCaseLetters) \cup CharSet(UpperCaseLetters) \cup CharSet(Digits) \cup {"_"}

\* the regular expression class \w
IsWordChar(c) == c \in WordChars

\* String.prototype.trim: s without its leading and trailing white space
trim(s) ==
    LET inked == {i \in 1..Len(s) : ~IsSpace(CharAt(s, i))}
    IN  IF inked = {} THEN ""
        ELSE SubSeq(s, CHOOSE i \in inked : \A j \in inked : i <= j,
                       CHOOSE i \in inked : \A j \in inked : j <= i)

(***************************************************************************)
(* The tokenizer's tables.                                                 *)
(***************************************************************************)
VOCABULARY == <<
    "<pad>", "<unk>", "<bos>", "<eos>", "the", "a", "an", "is", "are",
    "was", "were", "be", "been", "being", "have", "has", "had", "do",
    "does", "did", "will", "would", "could", "should", "may", "might",
    "must", "shall", "can", "need", "dare", "ought", "used", "to", "and",
    "but", "or", "nor", "for", "yet", "so", "if", "then", "else", "when",
    "where", "why", "how", "what", "which", "who", "whom", "whose", "this",
    "that", "these", "those", "here", "there", "now", "then", "in", "on",
    "at", "by", "with", "from", "of", "as", "into", "through", "i", "you",
    "he", "she", "it", "we", "they", "me", "him", "her", "us", "them",
    "my", "your", "his", "its", "our", "their", "mine", "yours", "hers",
    "ours", "theirs", "not", "no", "yes", "all", "some", "any", "none",
    "each", "every", "both", "cat", "dog", "bird", "fish", "tree", "house",
    "car", "book", "word", "world", "fox", "sat", "mat", "hat", "rat",
    "bat", "fat", "flat", "chat", "that", "hello", "world", "good", "bad",
    "big", "small", "new", "old", "young", "quick", "brown", "lazy", "man",
    "woman", "child", "day", "night", "time", "year", "way", "thing",
    "love", "like", "want", "know", "think", "see", "look", "make", "go",
    "come", "take", "get", "give", "find", "tell", "ask", "use", "try",
    "leave", "call", "jump", "jumps", "over", "model", "data", "learn",
    "train", "test", "input", "output", "layer", "network", "attention",
    "transformer", "token", "embed", "vector", "matrix", "weight", "print",
    "function", "return", "var", "let", "const", ".", ",", "!", "?", "'",
    "\"", "-", ":", ";", "(", ")", "[", "]", "{", "}", "0", "1", "2", "3",
    "4", "5", "6", "7", "8", "9", "a", "b", "c", "d", "e", "f", "g", "h",
    "i", "j", "k", "l", "m", "n", "o", "p", "q", "r", "s", "t", "u", "v",
    "w", "x", "y", "z"
>>

\* new Map(VOCABULARY.map((word, i) => [word, i])).has
WORD_TO_ID_has(w) == \E i \in 1..Len(VOCABULARY) : VOCABULARY[i] = w

\* Map.get: a later entry of the same word replaces an earlier one; ids count from 0
WORD_TO_ID_get(w) ==
    LET at == {i \in 1..Len(VOCABULARY) : VOCABULARY[i] = w}
    IN  (CHOOSE i \in at : \A j \in at : j <= i) - 1

\* ID_TO_WORD[id] || '<unk>'
idToToken(id) ==
    IF id >= 0 /\ id < Len(VOCABULARY) /\ VOCABULARY[id + 1] # ""
    THEN VOCABULARY[id + 1]
    ELSE "<unk>"

(***************************************************************************)
(* tokenize                                                                *)
(***************************************************************************)
RECURSIVE WordRunEnd(_, _)
\* the last position of the maximal run of word characters that starts at i
WordRunEnd(s, i) ==
    IF i < Len(s) /\ IsWordChar(CharAt(s, i + 1)) THEN WordRunEnd(s, i + 1) ELSE i

RECURSIVE MatchFrom(_, _)
\* the matches of /[\w]+|[^\s\w]/g in s from position i on, left to right
MatchFrom(s, i) ==
    IF i > Len(s) THEN <<>>
    ELSE IF IsWordChar(CharAt(s, i))
         THEN <<SubSeq(s, i, WordRunEnd(s, i))>> \o MatchFrom(s, WordRunEnd(s, i) + 1)
         ELSE IF IsSpace(CharAt(s, i))
              THEN MatchFrom(s, i + 1)
              ELSE <<CharAt(s, i)>> \o MatchFrom(s, i + 1)

\* normalized.match(/[\w]+|[^\s\w]/g) || []
Match(s) == MatchFrom(s, 1)

\* the inner loop of tokenize: one token per character of an unknown part
CharFallback(part) ==
    [i \in 1..Len(part) |->
        IF WORD_TO_ID_has(CharAt(part, i))
        THEN [text |-> CharAt(part, i), id |-> WORD_TO_ID_get(CharAt(part, i))]
        ELSE [text |-> CharAt(part, i), id |-> WORD_TO_ID_get("<unk>")]]

\* a tokenizer that maps an unknown part to one <unk> token
PartTokensNoFallback(part) ==
    IF WORD_TO_ID_has(part)
    THEN <<[text |-> part, id |-> WORD_TO_ID_get(part)]>>
    ELSE <<[text |-> part, id |-> WORD_TO_ID_get("<unk>")]>>

\* the body of tokenize's outer loop: the tokens pushed for one part
PartTokens(part) ==
    IF WORD_TO_ID_has(part)
    THEN <<[text |-> part, id |-> WORD_TO_ID_get(part)]>>
    ELSE CharFallback(part)

RECURSIVE TokensOfParts(_)
TokensOfParts(parts) ==
    IF Len(parts) = 0 THEN <<>>
    ELSE PartTokens(Head(parts)) \o TokensOfParts(Tail(parts))

tokenize(t) == TokensOfParts(Match(trim(toLowerCase(t))))

(***************************************************************************)
(* simulateBPE                                                             *)
(***************************************************************************)
BPE_MERGE_RULES == <<
    [pair |-> <<"t", "h">>, result |-> "th", frequency |-> 3847],
    [pair |-> <<"th", "e">>, result |-> "the", frequency |-> 2941],
    [pair |-> <<"i", "n">>, result |-> "in", frequency |-> 2156],
    [pair |-> <<"a", "n">>, result |-> "an", frequency |-> 1893],
    [pair |-> <<"e", "r">>, result |-> "er", frequency |-> 1742],
    [pair |-> <<"o", "n">>, result |-> "on", frequency |-> 1521],
    [pair |-> <<"r", "e">>, result |-> "re", frequency |-> 1398],
    [pair |-> <<"e", "d">>, result |-> "ed", frequency |-> 1287],
    [pair |-> <<"in", "g">>, result |-> "ing", frequency |-> 1156],
    [pair |-> <<"a", "t">>, result |-> "at", frequency |-> 1089],
    [pair |-> <<"i", "s">>, result |-> "is", frequency |-> 987],
    [pair |-> <<"o", "u">>, result |-> "ou", frequency |-> 876],
    [pair |-> <<"e", "n">>, result |-> "en", frequency |-> 823],
    [pair |-> <<"s", "t">>, result |-> "st", frequency |-> 798],
    [pair |-> <<"un", "der">>, result |-> "under", frequency |-> 654],
    [pair |-> <<"st", "and">>, result |-> "stand", frequency |-> 543],
    [pair |-> <<"under", "stand">>, result |-> "understand", frequency |-> 421],
    [pair |-> <<"ing", "s">>, result |-> "ings", frequency |-> 398],
    [pair |-> <<"c", "at">>, result |-> "cat", frequency |-> 356],
    [pair |-> <<"s", "at">>, result |-> "sat", frequency |-> 312],
    [pair |-> <<"m", "at">>, result |-> "mat", frequency |-> 287],
    [pair |-> <<"h", "e">>, result |-> "he", frequency |-> 1654],
    [pair |-> <<"s", "h">>, result |-> "sh", frequency |-> 543],
    [pair |-> <<"c", "h">>, result |-> "ch", frequency |-> 487],
    [pair |-> <<"w", "h">>, result |-> "wh", frequency |-> 432]
>>

\* the key MERGE_MAP is built with: rule.pair.join('|')
MergeKey(rule) == rule.pair[1] \o "|" \o rule.pair[2]

\* MERGE_MAP.get(key) is defined
MERGE_MAP_has(key) == \E r \in 1..Len(BPE_MERGE_RULES) : MergeKey(BPE_MERGE_RULES[r]) = key

\* MERGE_MAP.get(key): Map.set of a key already present replaces the earlier rule
MERGE_MAP_get(key) ==
    LET at == {r \in 1..Len(BPE_MERGE_RULES) : MergeKey(BPE_MERGE_RULES[r]) = key}
    IN  BPE_MERGE_RULES[CHOOSE r \in at : \A q \in at : q <= r]

\* a scan in which a later pair of equal frequency replaces the earlier one
BetterOrEqual(rule, bestMerge) == rule.frequency >= bestMerge.frequency

\* the comparison that replaces bestMerge: rule.frequency > bestMerge.frequency
Better(rule, bestMerge) == rule.frequency > bestMerge.frequency

\* one pass of the for loop's body at index i (0-based): best is bestMerge and
\* bestMergeIdx as [found, rule, idx]
ScanStep(toks, i, best) ==
    LET pair == toks[i + 1] \o "|" \o toks[i + 2]
    IN  IF MERGE_MAP_has(pair)
           /\ (~best.found \/ Better(MERGE_MAP_get(pair), best.rule))
        THEN [found |-> TRUE, rule |-> MERGE_MAP_get(pair), idx |-> i]
        ELSE best

RECURSIVE ScanPairs(_, _, _)
\* for (let i = 0; i < currentTokens.length - 1; i++), from index i on; the
\* next index and the next best are values before the loop goes on
ScanPairs(toks, i, best) ==
    IF ~(i < Len(toks) - 1) THEN best
    ELSE CHOOSE r \in {ScanPairs(toks, j, b) : j \in {i + 1}, b \in {ScanStep(toks, i, best)}} : TRUE

\* the value the model gives a null field
Null == "null"

\* the value of a result that has not been returned yet
NoResult == [pending |-> TRUE]

\* let bestMerge = null; let bestMergeIdx = -1
NoMerge == [found |-> FALSE, rule |-> Null, idx |-> -1]

\* a merge that keeps the second token of the pair: slice(idx + 1)
ApplyMergeKeepSecond(toks, idx, result) ==
    SubSeq(toks, 1, idx) \o <<result>> \o SubSeq(toks, idx + 2, Len(toks))

\* [...currentTokens.slice(0, idx), result, ...currentTokens.slice(idx + 2)]
ApplyMerge(toks, idx, result) ==
    SubSeq(toks, 1, idx) \o <<result>> \o SubSeq(toks, idx + 3, Len(toks))

\* a loop bound that allows one more iteration
LimitPlusOne == 21

\* the bound of the while loop: stepNum < 20
SAFETY_LIMIT == 20

\* finalTokens: the vocabulary id of each token, <unk> when it has none
FinalTokens(toks) ==
    [i \in 1..Len(toks) |->
        [text |-> toks[i],
         id |-> IF WORD_TO_ID_has(toks[i]) THEN WORD_TO_ID_get(toks[i])
                ELSE WORD_TO_ID_get("<unk>")]]

(***************************************************************************)
(* Numbers.  A JavaScript number is modelled as an exact fraction n/d in   *)
(* lowest terms with d > 0, or as one of the three IEEE values with d = 0: *)
(* Infinity (n = 1), -Infinity (n = -1) and NaN (n = 0).  Arithmetic is    *)
(* exact: the rounding of doubles is not modelled (and -0 is 0).           *)
(***************************************************************************)
Abs(x) == IF x < 0 THEN -x ELSE x

RECURSIVE GCD(_, _)
GCD(a, b) ==
    IF b = 0 THEN a ELSE CHOOSE g \in {GCD(b, r) : r \in {a % b}} : TRUE

Sign(x) == IF x > 0 THEN 1 ELSE IF x < 0 THEN -1 ELSE 0

\* the number n/d, d # 0, in lowest terms
Frac(n, d) ==
    CHOOSE q \in
        {[n |-> (Sign(dd) * nn) \div g, d |-> Abs(dd) \div g] :
            nn \in {n}, dd \in {d}, g \in {GCD(Abs(n), Abs(d))}} : TRUE

Num(i) == [n |-> i, d |-> 1]
Zero == Num(0)
One == Num(1)
PosInf == [n |-> 1, d |-> 0]
NegInf == [n |-> -1, d |-> 0]
NaN == [n |-> 0, d |-> 0]
\* the value of a missing array element or property
Undefined == [undefined |-> TRUE]

IsUndefined(a) == a = Undefined
IsNaN(a) == a = NaN
IsFinite(a) == ~IsUndefined(a) /\ a.d # 0
SignOf(a) == Sign(a.n)

\* a + b
Plus(a, b) ==
    IF IsUndefined(a) \/ IsUndefined(b) \/ IsNaN(a) \/ IsNaN(b) THEN NaN
    ELSE IF ~IsFinite(a) THEN (IF ~IsFinite(b) /\ b # a THEN NaN ELSE a)
    ELSE IF ~IsFinite(b) THEN b
    ELSE Frac(a.n * b.d + b.n * a.d, a.d * b.d)

\* -a
Neg(a) == IF IsUndefined(a) THEN NaN ELSE [n |-> -a.n, d |-> a.d]

\* a - b
Minus(a, b) == Plus(a, Neg(b))

\* a * b
Times(a, b) ==
    IF IsUndefined(a) \/ IsUndefined(b) \/ IsNaN(a) \/ IsNaN(b) THEN NaN
    ELSE IF ~IsFinite(a) \/ ~IsFinite(b)
         THEN (IF SignOf(a) * SignOf(b) = 0 THEN NaN
               ELSE [n |-> SignOf(a) * SignOf(b), d |-> 0])
    ELSE Frac(a.n * b.n, a.d * b.d)

\* a / b
Over(a, b) ==
    IF IsUndefined(a) \/ IsUndefined(b) \/ IsNaN(a) \/ IsNaN(b) THEN NaN
    ELSE IF ~IsFinite(a) THEN (IF ~IsFinite(b) THEN NaN
                               ELSE [n |-> SignOf(a) * (IF SignOf(b) < 0 THEN -1 ELSE 1),
                                     d |-> 0])
    ELSE IF ~IsFinite(b) THEN Zero
    ELSE IF b.n = 0 THEN [n |-> SignOf(a), d |-> 0]
    ELSE Frac(a.n * b.d, a.d * b.n)

\* a < b: false when either side is NaN or undefined
Less(a, b) ==
    IF IsUndefined(a) \/ IsUndefined(b) \/ IsNaN(a) \/ IsNaN(b) THEN FALSE
    ELSE IF a = b THEN FALSE
    ELSE IF a = NegInf \/ b = PosInf THEN TRUE
    ELSE IF a = PosInf \/ b = NegInf THEN FALSE
    ELSE a.n * b.d < b.n * a.d

\* a > b
Greater(a, b) == Less(b, a)

\* a >= b: false when either side is NaN or undefined
GreaterEq(a, b) ==
    /\ ~(IsUndefined(a) \/ IsUndefined(b) \/ IsNaN(a) \/ IsNaN(b))
    /\ ~Less(a, b)

\* the values of e^(-k/2) in thousandths, k = 0, 1, ..., rounded to nearest
ExpThousandths == <<1000, 607, 368, 223, 135, 82, 50, 30, 18, 11, 7, 4, 2, 2, 1, 1>>

\* Math.exp on arguments <= 0, as a fixed-point table on the grid of halves:
\* an argument between two grid points takes the value of the lower one, and
\* below the table the result underflows to 0; exp(-Infinity) is 0
MathExp(x) ==
    IF IsUndefined(x) \/ IsNaN(x) THEN NaN
    ELSE IF x = NegInf THEN Zero
    ELSE IF x = PosInf THEN PosInf
    ELSE LET k == (-(2 * x.n)) \div x.d + (IF (2 * x.n) % x.d = 0 THEN 0 ELSE 1)
         IN  IF k < 0 THEN Over(One, Frac(ExpThousandths[1 + (IF -k < 15 THEN -k ELSE 15)], 1000))
             ELSE IF k + 1 > Len(ExpThousandths) THEN Zero
             ELSE Frac(ExpThousandths[k + 1], 1000)

RECURSIVE SumFrom(_, _, _)
\* arr.reduce((a, b) => a + b, init), from index i (1-based) on
SumFrom(arr, i, acc) ==
    IF i > Len(arr) THEN acc
    ELSE CHOOSE r \in {SumFrom(arr, j, a) : j \in {i + 1}, a \in {Plus(acc, arr[i])}} : TRUE

\* arr.reduce((a, b) => a + b, 0)
Sum(arr) == SumFrom(arr, 1, Zero)

RECURSIVE MaxFrom(_, _, _)
MaxFrom(arr, i, acc) ==
    IF i > Len(arr) THEN acc
    ELSE LET x == arr[i]
         IN  CHOOSE result \in
                {MaxFrom(arr, i + 1, greater) :
                    greater \in {IF IsNaN(acc) \/ IsNaN(x) \/ IsUndefined(x) THEN NaN
                                 ELSE IF Greater(x, acc) THEN x ELSE acc}} : TRUE

\* Math.max(...arr): -Infinity for no arguments, NaN when an argument is NaN
MathMax(arr) == MaxFrom(arr, 1, NegInf)

(***************************************************************************)
(* Arrays.  An array is a sequence; reading past its end gives undefined.  *)
(* A call either returns a value or throws a TypeError.                    *)
(***************************************************************************)
\* arr[i] with the 0-based index i
At(arr, i) == IF i >= 0 /\ i < Len(arr) THEN arr[i + 1] ELSE Undefined

Returns(v) == [threw |-> FALSE, value |-> v]
\* reading a property of undefined
TypeError == [threw |-> TRUE, value |-> "TypeError"]

RECURSIVE InsertDesc(_, _)
\* x put into the sorted sequence of entries after every entry e with
\* e.prob >= x.prob
InsertDesc(sorted, x) ==
    IF Len(sorted) = 0 THEN <<x>>
    ELSE IF Less(sorted[Len(sorted)].prob, x.prob)
         THEN CHOOSE result \in
                {Append(InsertDesc(front, x), sorted[Len(sorted)]) :
                    front \in {SubSeq(sorted, 1, Len(sorted) - 1)}} : TRUE
         ELSE Append(sorted, x)

RECURSIVE SortDescUpTo(_, _)
SortDescUpTo(arr, n) ==
    IF n = 0 THEN <<>>
    ELSE CHOOSE result \in
            {InsertDesc(sorted, arr[n]) : sorted \in {SortDescUpTo(arr, n - 1)}} : TRUE

\* Array.prototype.sort with the comparator (a, b) => b.prob - a.prob:
\* descending by prob, entries of equal prob in their original order (the
\* sort is stable)
SortByProbDesc(arr) == SortDescUpTo(arr, Len(arr))

\* [...probs].sort((a, b) => b - a)
SortDesc(probs) ==
    LET sorted == SortByProbDesc([i \in 1..Len(probs) |-> [prob |-> probs[i]]])
    IN  [i \in 1..Len(probs) |-> sorted[i].prob]

(***************************************************************************)
(* math-utils.js                                                           *)
(***************************************************************************)
\* a softmax that returns the exponentials without dividing by their sum
softmaxUnnormalized(arr) ==
    LET max == MathMax(arr)
    IN  [i \in 1..Len(arr) |-> MathExp(Minus(arr[i], max))]

\* softmax
softmax(arr) ==
    CHOOSE result \in
        UNION {{[i \in 1..Len(arr) |-> Over(exps[i], sum)] : sum \in {Sum(exps)}} :
                  exps \in {[i \in 1..Len(arr) |-> MathExp(Minus(arr[i], max))] :
                               max \in {MathMax(arr)}}} : TRUE

RECURSIVE DotFrom(_, _, _, _)
\* row.reduce((sum, val, i) => sum + val * v[i], 0), from index i (0-based) on
DotFrom(row, v, i, acc) ==
    IF i >= Len(row) THEN acc
    ELSE CHOOSE r \in {DotFrom(row, v, j, a) :
                          j \in {i + 1}, a \in {Plus(acc, Times(row[i + 1], At(v, i)))}} : TRUE

\* matvec
matvec(M, v) == [r \in 1..Len(M) |-> DotFrom(M[r], v, 0, Zero)]

\* the inner loop of matmul: result[i][j] += A[i][k] * B[k][j] for k < n
MatmulEntry(A, B, i, j, n) ==
    Sum([k \in 1..n |-> Times(At(A[i], k - 1), At(B[k], j - 1))])

\* matmul: a TypeError when A[0] or B[0] is undefined, or when a row B[k],
\* k < n, is read that B does not have
matmul(A, B) ==
    IF Len(A) = 0 \/ Len(B) = 0 THEN TypeError
    ELSE LET m == Len(A)
             n == Len(A[1])
             p == Len(B[1])
         IN  IF m > 0 /\ p > 0 /\ n > Len(B) THEN TypeError
             ELSE Returns([i \in 1..m |-> [j \in 1..p |-> MatmulEntry(A, B, i, j, n)]])

\* transpose: result[j][i] = M[i][j] for i < rows, j < cols = M[0].length
transpose(M) ==
    IF Len(M) = 0 THEN TypeError
    ELSE Returns([j \in 1..Len(M[1]) |-> [i \in 1..Len(M) |-> At(M[i], j - 1)]])

\* a mask that also hides the diagonal
applyCausalMaskStrict(scores) ==
    [i \in 1..Len(scores) |->
        [j \in 1..Len(scores[i]) |-> IF j >= i THEN NegInf ELSE scores[i][j]]]

\* applyCausalMask
applyCausalMask(scores) ==
    [i \in 1..Len(scores) |->
        [j \in 1..Len(scores[i]) |-> IF j > i THEN NegInf ELSE scores[i][j]]]

\* the values of sqrt(n) in thousandths, n = 1, 2, ..., rounded to nearest
SqrtThousandths == <<1000, 1414, 1732, 2000, 2236>>

\* Math.sqrt on the positive integers of the table, as a fixed-point value
MathSqrt(n) == Frac(SqrtThousandths[n], 1000)

\* scaledDotProductAttention
scaledDotProductAttention(Q, K, V, causal) ==
    LET d_k == Len(Q[1])
        scale == MathSqrt(d_k)
        KT == transpose(K)
    IN  IF KT.threw THEN KT
        ELSE LET product == matmul(Q, KT.value)
             IN  IF product.threw THEN product
                 ELSE LET scaled == [i \in 1..Len(product.value) |->
                                        [j \in 1..Len(product.value[i]) |->
                                            Over(product.value[i][j], scale)]]
                          scores == IF causal THEN applyCausalMask(scaled) ELSE scaled
                          weights == [i \in 1..Len(scores) |-> softmax(scores[i])]
                          output == matmul(weights, V)
                      IN  IF output.threw THEN output
                          ELSE Returns([weights |-> weights, output |-> output.value])

(***************************************************************************)
(* moe-demo.js: the sampling pipeline                                      *)
(***************************************************************************)
\* applyTemperature
applyTemperature(logits, temperature) ==
    [i \in 1..Len(logits) |-> Over(logits[i], temperature)]

\* a top-k whose threshold is the value after the k-th largest
applyTopKOffByOne(probs, k) ==
    IF k >= Len(probs) THEN probs
    ELSE LET sorted == SortDesc(probs)
             threshold == At(sorted, k)
         IN  [i \in 1..Len(probs) |-> IF GreaterEq(probs[i], threshold) THEN probs[i] ELSE Zero]

\* applyTopK
applyTopK(probs, k) ==
    IF k >= Len(probs) THEN probs
    ELSE LET sorted == SortDesc(probs)
             threshold == At(sorted, k - 1)
         IN  [i \in 1..Len(probs) |-> IF GreaterEq(probs[i], threshold) THEN probs[i] ELSE Zero]

RECURSIVE NucleusFrom(_, _, _, _, _)
\* the loop of applyTopP over the sorted entries, from position j on;
\* cumulative and keepIndices (0-based) as they stand before it
NucleusFrom(indexed, p, j, cumulative, keepIndices) ==
    IF j > Len(indexed) THEN keepIndices
    ELSE IF Less(cumulative, p)
         THEN NucleusFrom(indexed, p, j + 1, Plus(cumulative, indexed[j].prob),
                          keepIndices \cup {indexed[j].i})
         ELSE NucleusFrom(indexed, p, j + 1, cumulative, keepIndices)

\* a top-p that stops before the entry that would reach or cross p
applyTopPBefore(probs, p) ==
    LET indexed == SortByProbDesc([i \in 1..Len(probs) |-> [prob |-> probs[i], i |-> i - 1]])
        keepIndices == {indexed[q].i : q \in {q \in 1..Len(indexed) :
                            Less(Sum([r \in 1..q |-> indexed[r].prob]), p)}}
    IN  [i \in 1..Len(probs) |-> IF (i - 1) \in keepIndices THEN probs[i] ELSE Zero]

\* applyTopP
applyTopP(probs, p) ==
    LET indexed == SortByProbDesc([i \in 1..Len(probs) |-> [prob |-> probs[i], i |-> i - 1]])
        keepIndices == NucleusFrom(indexed, p, 1, Zero, {})
    IN  [i \in 1..Len(probs) |-> IF (i - 1) \in keepIndices THEN probs[i] ELSE Zero]

\* a normalization that leaves its argument as it is
normalizeSkipped(probs) == probs

\* normalize (of the sampling pipeline)
normalize(probs) ==
    LET sum == Sum(probs)
    IN  IF sum = Zero THEN probs ELSE [i \in 1..Len(probs) |-> Over(probs[i], sum)]

RECURSIVE SampleFrom(_, _, _, _)
\* the loop of sampleToken from index i (0-based) on, cumulative as it
\* stands before it
SampleFrom(probs, r, i, cumulative) ==
    IF i >= Len(probs) THEN Len(probs) - 1
    ELSE LET sum == Plus(cumulative, probs[i + 1])
         IN  IF Less(r, sum) THEN i ELSE SampleFrom(probs, r, i + 1, sum)

\* a sampleToken that stops as soon as the cumulative sum reaches r
sampleTokenInclusive(probs, r) ==
    LET reached == {i \in 0..(Len(probs) - 1) :
                        GreaterEq(Sum(SubSeq(probs, 1, i + 1)), r)}
    IN  IF reached = {} THEN Len(probs) - 1
        ELSE CHOOSE i \in reached : \A j \in reached : i <= j

\* sampleToken, with r the value Math.random() returned
sampleToken(probs, r) == SampleFrom(probs, r, 0, Zero)

\* computeSamplingDistribution
computeSamplingDistribution(baseLogits, temperature, topK, topP) ==
    LET scaledLogits == applyTemperature(baseLogits, temperature)
        probs1 == softmax(scaledLogits)
        probs2 == applyTopK(probs1, topK)
        probs3 == normalize(probs2)
        probs4 == applyTopP(probs3, topP)
        probs5 == normalize(probs4)
    IN  [scaledLogits |-> scaledLogits,
         finalProbs |-> probs5,
         activeCount |-> Cardinality({i \in 1..Len(probs5) : Greater(probs5[i], Zero)})]

(***************************************************************************)
(* The sampling pipeline's normalize in binary floating point: every sum   *)
(* and every quotient is rounded to the nearest number with a significand  *)
(* of SignificandBits bits, ties to even, as IEEE 754 arithmetic does with *)
(* 53 bits.  Exponents are unbounded here (no overflow, no subnormals).    *)
(***************************************************************************)
\* 2^e as a number, e an integer
Pow2(e) == IF e >= 0 THEN Num(2 ^ e) ELSE Frac(1, 2 ^ (-e))

\* the exponents the rounded values of the model lie within
Exponents == (-16)..8

\* the e with 2^e <= x < 2^(e+1), x finite and positive
ExponentOf(x) ==
    CHOOSE e \in Exponents : GreaterEq(x, Pow2(e)) /\ Less(x, Pow2(e + 1))

\* the integer nearest to the non-negative number m, the even one on a tie
NearestEven(m) ==
    LET floor == m.n \div m.d
        twice == 2 * (m.n % m.d)
    IN  IF twice > m.d \/ (twice = m.d /\ floor % 2 = 1) THEN floor + 1 ELSE floor

\* x rounded to the nearest floating-point number
RoundToNearest(x) ==
    IF ~IsFinite(x) \/ x = Zero THEN x
    ELSE LET magnitude == IF x.n < 0 THEN Neg(x) ELSE x
             quantum == Pow2(ExponentOf(magnitude) - SignificandBits + 1)
             rounded == Times(Num(NearestEven(Over(magnitude, quantum))), quantum)
         IN  IF x.n < 0 THEN Neg(rounded) ELSE rounded

\* a + b and a / b on floating-point numbers
RoundedPlus(a, b) == RoundToNearest(Plus(a, b))
RoundedOver(a, b) == RoundToNearest(Over(a, b))

RECURSIVE RoundedSumFrom(_, _, _)
\* probs.reduce((a, b) => a + b, 0) from position i on, acc the sum so far
RoundedSumFrom(arr, i, acc) ==
    IF i > Len(arr) THEN acc
    ELSE RoundedSumFrom(arr, i + 1, RoundedPlus(acc, arr[i]))

RoundedSum(arr) == RoundedSumFrom(arr, 1, Zero)

\* a normalize without the test for a sum of 0
normalizeRoundedUnguarded(probs) ==
    [i \in 1..Len(probs) |-> RoundedOver(probs[i], RoundedSum(probs))]

\* normalize (of the sampling pipeline) on floating-point numbers
normalizeRounded(probs) ==
    LET sum == RoundedSum(probs)
    IN  IF sum = Zero THEN probs ELSE [i \in 1..Len(probs) |-> RoundedOver(probs[i], sum)]

(***************************************************************************)
(* moe-demo.js: the router                                                 *)
(***************************************************************************)
\* indexed.slice(0, k)
SliceTo(arr, k) == SubSeq(arr, 1, IF k < Len(arr) THEN k ELSE Len(arr))

\* a router that weighs the selected experts by their unfiltered probability
GateWeightUnnormalized(prob, totalWeight) == prob

\* weight: e.prob / totalWeight
GateWeight(prob, totalWeight) == Over(prob, totalWeight)

\* routeToken, with the module's CONFIG and routerWeights as arguments
routeToken(CONFIG, routerWeights, embedding) ==
    LET logits == matvec(transpose(routerWeights).value, embedding)
        probs == softmax(logits)
        indexed == SortByProbDesc([i \in 1..Len(probs) |-> [prob |-> probs[i], index |-> i - 1]])
        topExperts == SliceTo(indexed, CONFIG.topK)
        totalWeight == Sum([i \in 1..Len(topExperts) |-> topExperts[i].prob])
        normalizedWeights ==
            [i \in 1..Len(topExperts) |->
                [prob |-> topExperts[i].prob, index |-> topExperts[i].index,
                 weight |-> GateWeight(topExperts[i].prob, totalWeight)]]
    IN  [allProbs |-> probs,
         topExperts |-> normalizedWeights,
         expert1 |-> At(normalizedWeights, 0),
         expert2 |-> At(normalizedWeights, 1)]

RECURSIVE SelectionsFrom(_, _)
\* the selections r.routing.topExperts of the routing results from position
\* i on, in the order the two forEach loops of runMOEDemo visit them
SelectionsFrom(routingResults, i) ==
    IF i > Len(routingResults) THEN <<>>
    ELSE routingResults[i].routing.topExperts \o SelectionsFrom(routingResults, i + 1)

\* Math.abs
MathAbs(a) == IF IsFinite(a) /\ a.n < 0 THEN Neg(a) ELSE a

\* an ideal count that leaves topK out
IdealCountPerToken(numTokens, CONFIG) == Frac(numTokens, CONFIG.numExperts)

\* (tokens.length * CONFIG.topK) / CONFIG.numExperts
IdealCount(numTokens, CONFIG) == Frac(numTokens * CONFIG.topK, CONFIG.numExperts)

\* runMOEDemo from const loadImbalance on: the returned object
DemoBalanced(CONFIG, tokenList, routingResults, expertCounts, expertWeights, idealCount) ==
    CHOOSE result \in
        {[tokens |-> tokenList,
          config |-> CONFIG,
          routingResults |-> routingResults,
          expertCounts |-> expertCounts,
          expertWeights |-> expertWeights,
          loadBalance |-> [idealCount |-> idealCount,
                           avgImbalance |-> Over(Sum(loadImbalance), Num(CONFIG.numExperts)),
                           maxImbalance |-> MathMax(loadImbalance)]] :
            loadImbalance \in
                {[e \in 1..CONFIG.numExperts |->
                    MathAbs(Minus(Num(expertCounts[e]), idealCount))]}} : TRUE

\* runMOEDemo from the two forEach loops on: expertCounts, expertWeights and
\* idealCount of the selections, then the rest
DemoCounted(CONFIG, tokenList, routingResults, selections) ==
    CHOOSE result \in
        {DemoBalanced(CONFIG, tokenList, routingResults, expertCounts, expertWeights, idealCount) :
            expertCounts \in
                {[e \in 1..CONFIG.numExperts |->
                    Cardinality({k \in 1..Len(selections) : selections[k].index = e - 1})]},
            expertWeights \in
                {[e \in 1..CONFIG.numExperts |->
                    Sum([k \in 1..Len(selections) |->
                            IF selections[k].index = e - 1
                            THEN selections[k].weight ELSE Zero])]},
            idealCount \in {IdealCount(Len(tokenList), CONFIG)}} : TRUE

\* runMOEDemo from const routingResults on
DemoRouted(CONFIG, tokenList, routingResults) ==
    CHOOSE result \in
        {DemoCounted(CONFIG, tokenList, routingResults, selections) :
            selections \in {SelectionsFrom(routingResults, 1)}} : TRUE

\* runMOEDemo after the tokens are cut to ten: null for none, else the
\* routing of every token and the statistics
DemoOfTokens(CONFIG, routerWeights, embeddings, tokenList) ==
    IF Len(tokenList) = 0 THEN Null
    ELSE CHOOSE result \in
            {DemoRouted(CONFIG, tokenList, routingResults) :
                routingResults \in
                    {[i \in 1..Len(tokenList) |->
                        [token |-> tokenList[i], tokenIndex |-> i - 1,
                         routing |-> routeToken(CONFIG, routerWeights, embeddings[i])]]}} : TRUE

\* runMOEDemo, with the module's CONFIG and routerWeights as arguments, and
\* with embeddings standing for what getEmbeddings(tokens) returns; every
\* const of the source is a value computed once
runMOEDemo(CONFIG, routerWeights, embeddings, inputText) ==
    CHOOSE result \in
        {DemoOfTokens(CONFIG, routerWeights, embeddings, tokenList) :
            tokenList \in {SliceTo(tokenize(inputText), 10)}} : TRUE

(***************************************************************************)
(* The calls of the pure functions: one call, then its return.             *)
(***************************************************************************)
NoCall == [fn |-> "none"]

\* the sequences over vals of the lengths lens
Vectors(lens, vals) == UNION {[1..n -> vals] : n \in lens}

\* the r x c matrix of the numbers 1, 2, ... row by row
CountingMatrix(r, c) == [i \in 1..r |-> [j \in 1..c |-> Num((i - 1) * c + j)]]

\* the matrix whose row i has lens[i] entries, 10 * i + j at column j
RaggedMatrix(lens) == [i \in 1..Len(lens) |-> [j \in 1..lens[i] |-> Num(10 * i + j)]]

SoftmaxCalls ==
    {[fn |-> "softmax", arr |-> a] :
        a \in Vectors(0..MaxVec, {NegInf, Num(-9), Num(-8), Num(-1), Num(0), Num(1)})
                \cup {<<Num(1), Num(3), Num(2)>>}}

ProbVectors == Vectors(0..MaxVec, {Zero, Frac(1, 4), Frac(1, 2)})

TopKs == 1..MaxTopK

TopPs == {Frac(-1, 4), Zero, Frac(1, 4), Frac(1, 2), Frac(3, 4), One, Frac(5, 4)}

ApplyTopKCalls == {[fn |-> "applyTopK", probs |-> v, k |-> k] : v \in ProbVectors, k \in TopKs}

ApplyTopPCalls == {[fn |-> "applyTopP", probs |-> v, p |-> p] : v \in ProbVectors, p \in TopPs}

SamplingCalls ==
    {[fn |-> "computeSamplingDistribution", baseLogits |-> l, temperature |-> t,
      topK |-> k, topP |-> p] :
        l \in Vectors(1..MaxVec, {Num(-9), Num(0), Num(1)}),
        t \in {Frac(1, 2), One, Num(2)},
        k \in TopKs,
        p \in {Zero, Frac(1, 2), Frac(9, 10), One}}

Dims == 1..MaxDim

MatmulCalls ==
    {[fn |-> "matmul", A |-> CountingMatrix(m, n), B |-> CountingMatrix(r, q)] :
        m \in Dims, n \in Dims, r \in Dims, q \in Dims}

MatvecCalls ==
    {[fn |-> "matvec", M |-> CountingMatrix(m, n), v |-> [i \in 1..r |-> Num(i)]] :
        m \in Dims, n \in Dims, r \in Dims}

TransposeCalls ==
    {[fn |-> "transpose", M |-> RaggedMatrix(lens)] : lens \in Vectors(Dims, Dims)}

SquareMatrices ==
    UNION {[1..n -> [1..n -> {Num(-1), Num(0), Num(1)}]] : n \in Dims}
        \cup {CountingMatrix(3, 3)}

CausalMaskCalls == {[fn |-> "applyCausalMask", scores |-> m] : m \in SquareMatrices}

\* the lengths of a key vector and of a value vector
VectorDims == 1..2

\* the matrices of 0s and 1s with r rows and c columns
BitMatrices(r, c) == [1..r -> [1..c -> {Num(0), Num(1)}]]

\* Q, K and V of tests/unit/math-utils.test.js
TestValues == <<<<Num(10), Num(0)>>, <<Num(0), Num(20)>>>>

AttentionCalls ==
    UNION {{[fn |-> "scaledDotProductAttention", Q |-> q, K |-> k, V |-> v, causal |-> c] :
                q \in BitMatrices(n, dk), k \in BitMatrices(n, dk),
                v \in {CountingMatrix(n, dv) : dv \in VectorDims}
                        \cup (IF n = 2 THEN {TestValues} ELSE {}),
                c \in BOOLEAN} : n \in 1..MaxSeq, dk \in VectorDims}

\* values of Math.random(), which lie in [0, 1)
Rolls == {Zero, Frac(1, 4), Frac(1, 2), Frac(3, 4)}

SampleTokenCalls ==
    {[fn |-> "sampleToken", probs |-> v, r |-> r] : v \in ProbVectors, r \in Rolls}

\* vectors of non-negative numbers that floating point represents exactly
NormalizeCalls ==
    {[fn |-> "normalize", probs |-> v] :
        v \in Vectors(0..MaxVec, {Num(0), Num(1), Num(2), Num(3), Num(5)})}

\* the router's configurations: the source has numExperts 8, topK 2
Configs == [numExperts : 1..MaxExperts, topK : TopKs]

\* the positions of an embedding vector (the source has embedDim 64)
EmbedRange == 1..2

\* the texts runMOEDemo is called with: none, one to three tokens, and twelve
DemoTexts == {"", "the", "the cat", "a b c", "a a a a a a a a a a a a"}

\* embeddings of n tokens: every choice up to three tokens, one beyond
DemoEmbeddings(n) ==
    IF n <= 3 THEN [1..n -> [EmbedRange -> {Num(-1), Num(1)}]]
    ELSE {[i \in 1..n |-> [d \in EmbedRange |-> IF (i + d) % 3 = 0 THEN Num(-1) ELSE Num(1)]]}

\* router weights of n experts: expert e listens to dimension d when e - d
\* is even, or when it is odd
DemoWeights(n) ==
    {[d \in EmbedRange |-> [e \in 1..n |-> IF (e + d) % 2 = parity THEN Num(1) ELSE Num(0)]] :
        parity \in {0, 1}}

RunMOEDemoCalls ==
    UNION {{[fn |-> "runMOEDemo", CONFIG |-> c, routerWeights |-> w,
             embeddings |-> m, inputText |-> t] :
                w \in DemoWeights(c.numExperts),
                m \in DemoEmbeddings(Len(SliceTo(tokenize(t), 10)))} :
           c \in Configs, t \in DemoTexts}

RouteTokenCalls ==
    {[fn |-> "routeToken", CONFIG |-> c, routerWeights |-> w, embedding |-> e] :
        c \in Configs,
        e \in [EmbedRange -> {Num(-1), Num(0), Num(1)}],
        w \in UNION {[EmbedRange -> [1..n -> {Num(0), Num(1)}]] : n \in 1..MaxExperts}}

(***************************************************************************)
(* The texts the calls are made with.                                      *)
(***************************************************************************)
Alphabet == {"t", "h", "e", "T", " ", ".", "@", "_"}

ShortTexts == {Join(s) : s \in UNION {[1..n -> Alphabet] : n \in 0..MaxLen}}

RECURSIVE Repeat(_, _)
Repeat(unit, n) == IF n = 0 THEN "" ELSE unit \o Repeat(unit, n - 1)

\* texts long enough for the loop's bound to be reached
LongTexts == {Repeat(u, n) : u \in {"the", "ings"}, n \in 1..MaxReps}

\* the texts of tests/unit/math-utils.test.js
TestTexts == {"The cat sat.", "@", "the", "standing", "xyz"}

\* a longer text with known and unknown words, symbols and outer white space
MixedTexts == {"  He tht @ a_b.  "}

Texts == ShortTexts \cup LongTexts \cup TestTexts \cup MixedTexts

(***************************************************************************)
(* seededRandom and the tables built from it.  The generator's state is an *)
(* integer below 2^32, kept as two 16-bit limbs so that every intermediate *)
(* product fits; the number rng() returns is state / 4294967296, and an    *)
(* entry rng() * 2 - 1 of a random vector is written as the state it is    *)
(* computed from.                                                          *)
(***************************************************************************)
LCG_MULTIPLIER == 1664525
LCG_INCREMENT == 1013904223
\* 2^16; the modulus 4294967296 is Limb * Limb
Limb == 65536

\* the limbs of a seed (a natural number below 2^31)
SeedState(seed) == [hi |-> seed \div Limb, lo |-> seed % Limb]

\* s = (s * 1664525 + 1013904223) % 4294967296
LcgNext(s) ==
    LET low == s.lo * (LCG_MULTIPLIER % Limb)
        high == (low \div Limb) + s.hi * (LCG_MULTIPLIER % Limb)
                    + s.lo * (LCG_MULTIPLIER \div Limb)
        lowSum == (low % Limb) + (LCG_INCREMENT % Limb)
    IN  [hi |-> ((high % Limb) + (LCG_INCREMENT \div Limb) + (lowSum \div Limb)) % Limb,
         lo |-> lowSum % Limb]

RECURSIVE RngDraws(_, _)
\* the states behind the first n numbers of the generator whose state is s
RngDraws(s, n) ==
    IF n = 0 THEN <<>>
    ELSE CHOOSE r \in {<<t>> \o RngDraws(t, n - 1) : t \in {LcgNext(s)}} : TRUE

\* Array(dim).fill(0).map(() => rng() * 2 - 1)
randomVector(dim, seed) == RngDraws(SeedState(seed), dim)

\* rows x cols entries (rng() * 2 - 1) * 0.1, drawn row by row
randomMatrix(rows, cols, seed) ==
    LET draws == RngDraws(SeedState(seed), rows * cols)
    IN  [r \in 1..rows |-> [c \in 1..cols |-> [tenthOf |-> draws[(r - 1) * cols + c]]]]

\* const EMBED_DIM = 64, cut down to the dimensions the model keeps
EMBED_DIM == Cardinality(EmbedRange)

\* VOCABULARY.map((_, id) => randomVector(EMBED_DIM, id * 12345 + 67890)); row id is at id + 1
BuiltEmbeddings ==
    [row \in 1..Len(VOCABULARY) |-> randomVector(EMBED_DIM, (row - 1) * 12345 + 67890)]

\* the pair arrays of BPE_MERGE_RULES as the module builds them
BuiltRulePairs == [r \in 1..Len(BPE_MERGE_RULES) |-> BPE_MERGE_RULES[r].pair]

\* the caller holds no array yet
NothingHeld == [rows |-> <<>>, tableRows |-> <<>>]

\* no call has been made yet
NoFrameCall == [fn |-> "none"]

\* the tokenizer module after it is loaded
ModuleLoaded ==
    /\ EMBEDDINGS = BuiltEmbeddings
    /\ rulePairs = BuiltRulePairs
    /\ held = NothingHeld
    /\ last = NoFrameCall

(***************************************************************************)
(* The section switcher: three tabs, the active section, and the handler   *)
(* given to initSectionSwitcher.                                           *)
(***************************************************************************)
VALID_SECTIONS == <<"architecture", "training", "inference">>

\* VALID_SECTIONS.indexOf(section), from 0; -1 when absent
getIndex(section) ==
    IF \E i \in 1..Len(VALID_SECTIONS) : VALID_SECTIONS[i] = section
    THEN (CHOOSE i \in 1..Len(VALID_SECTIONS) : VALID_SECTIONS[i] = section) - 1
    ELSE -1

\* VALID_SECTIONS.includes(section)
isValidSection(section) == \E i \in 1..Len(VALID_SECTIONS) : VALID_SECTIONS[i] = section

\* the data-section of the tabs document.querySelectorAll('.section-tab') finds
TabSections == {VALID_SECTIONS[i] : i \in 1..Len(VALID_SECTIONS)}

\* the tabs as the page renders them: no class active, no aria-selected, no tabindex
RenderedTabs ==
    [t \in TabSections |-> [active |-> FALSE, ariaSelected |-> Null, tabindex |-> Null]]

\* no event or call yet
NoNavEvent == [op |-> "none"]

\* the section switcher module after it is loaded, and the rendered tabs
SwitcherLoaded ==
    /\ activeSection = Null
    /\ changeHandler = Null
    /\ listeners = 0
    /\ tabState = RenderedTabs
    /\ focused = Null
    /\ onChangeCalls = <<>>
    /\ navLast = NoNavEvent

(***************************************************************************)
(* The guided tour.  Of a step the model keeps the section, the component  *)
(* key, the title, the position and isFinal; the target selector and the   *)
(* content text are left out.                                              *)
(***************************************************************************)
TOUR_STEPS == <<
    [section |-> "architecture", componentKey |-> "input",
     title |-> "Architecture: Tokenization", position |-> "right", isFinal |-> FALSE],
    [section |-> "architecture", componentKey |-> "attention",
     title |-> "Architecture: Self-Attention", position |-> "right", isFinal |-> FALSE],
    [section |-> "architecture", componentKey |-> "ffn",
     title |-> "Architecture: FFN / MOE", position |-> "right", isFinal |-> FALSE],
    [section |-> "training", componentKey |-> "trainingData",
     title |-> "Training: Data", position |-> "right", isFinal |-> FALSE],
    [section |-> "training", componentKey |-> "lossFunction",
     title |-> "Training: Loss", position |-> "right", isFinal |-> FALSE],
    [section |-> "training", componentKey |-> "preferenceTuning",
     title |-> "Training: Preference Optimization", position |-> "right", isFinal |-> FALSE],
    [section |-> "inference", componentKey |-> "prefillPhase",
     title |-> "Inference: Prefill", position |-> "right", isFinal |-> FALSE],
    [section |-> "inference", componentKey |-> "autoregressiveLoop",
     title |-> "Inference: Decode Loop", position |-> "right", isFinal |-> FALSE],
    [section |-> "inference", componentKey |-> "kvCache",
     title |-> "Inference: KV Cache", position |-> "right", isFinal |-> FALSE],
    [section |-> "inference", componentKey |-> Null,
     title |-> "Click around and explore!", position |-> "center", isFinal |-> TRUE]
>>

\* the tour after new Tour() and init(): the fields of the object, the
\* tooltip as init() builds it, and what the tour has dispatched so far.
\* frames are the requestAnimationFrame callbacks of showStep that wait, in
\* the order they were requested, each with the token and index of its
\* showStep and with stage "first" for the outer and "second" for the inner
\* callback; onStepChange tells whether the client has set a handler, and
\* stepChanges are the indices it was called with by the last event
TourInitialised ==
    [active |-> FALSE, currentStep |-> 0, renderToken |-> 0, frames |-> <<>>,
     onStepChange |-> FALSE, stepChanges |-> <<>>,
     shown |-> FALSE, title |-> "", prevDisplay |-> "", nextText |-> "Next",
     centered |-> FALSE,
     requested |-> Null, highlighted |-> Null, events |-> <<>>]

\* no event or call yet
NoTourEvent == [op |-> "none"]

TourLoaded == tour = TourInitialised /\ tourLast = NoTourEvent

(***************************************************************************)
(* The demos.  Each demo is one object; the model keeps with it the        *)
(* interval timers it has started and not cleared (intervals, the ids that *)
(* setInterval returned), and whether init() has built its controls        *)
(* (bound).  A timer field holds 0 for null, an id otherwise.  What the    *)
(* demos only draw (the path of the gradient demo, the texts of the        *)
(* buttons and metrics) is left out.                                       *)
(***************************************************************************)
Tenths(n) == Frac(n, 10)

\* generation-demo.js: const VOCAB
VOCAB == <<"<eos>", "the", "cat", "sat", "on", "mat", "soft", "warm", "and", ".">>

\* generation-demo.js: const TRANSITIONS, each entry a function from its
\* own property names to their logits
TRANSITIONS ==
    [lastToken \in {"<bos>", "the", "cat", "sat", "on", "mat", "soft", "warm", "and", "."} |->
        CASE lastToken = "<bos>" ->
                ("the" :> Tenths(28)) @@ ("cat" :> Tenths(15)) @@ ("warm" :> Tenths(8))
                    @@ ("soft" :> Tenths(8)) @@ ("<eos>" :> Num(-2))
          [] lastToken = "the" ->
                ("cat" :> Tenths(28)) @@ ("mat" :> Tenths(23)) @@ ("warm" :> Tenths(15))
                    @@ ("soft" :> Tenths(14)) @@ ("." :> Tenths(-15)) @@ ("<eos>" :> Num(-2))
          [] lastToken = "cat" ->
                ("sat" :> Tenths(29)) @@ ("." :> Tenths(8)) @@ ("and" :> Tenths(4))
                    @@ ("<eos>" :> Tenths(-12))
          [] lastToken = "sat" ->
                ("on" :> Tenths(26)) @@ ("." :> Tenths(12)) @@ ("and" :> Tenths(6))
                    @@ ("<eos>" :> Tenths(-11))
          [] lastToken = "on" ->
                ("the" :> Tenths(27)) @@ ("warm" :> Tenths(11)) @@ ("soft" :> Tenths(11))
                    @@ ("<eos>" :> Tenths(-18))
          [] lastToken = "mat" ->
                ("." :> Tenths(24)) @@ ("and" :> Tenths(12)) @@ ("<eos>" :> Tenths(8))
          [] lastToken = "soft" ->
                ("mat" :> Tenths(22)) @@ ("and" :> Tenths(11)) @@ ("." :> Tenths(8))
          [] lastToken = "warm" ->
                ("mat" :> Tenths(22)) @@ ("and" :> Tenths(11)) @@ ("." :> Tenths(8))
          [] lastToken = "and" ->
                ("the" :> Tenths(24)) @@ ("cat" :> Tenths(15)) @@ ("warm" :> Tenths(13))
                    @@ ("soft" :> Tenths(13))
          [] lastToken = "." -> ("<eos>" :> Tenths(25))]

\* new GenerationDemoUI(containerId): the constructor and resetState()
GenerationConstructed ==
    [temperature |-> One, topK |-> 5, maxTokens |-> 12, timer |-> 0,
     phase |-> "prefill", promptText |-> "The cat", tokens |-> <<>>,
     generatedTokens |-> <<>>, kvCacheSize |-> 0, stepCount |-> 0,
     lastDistribution |-> <<>>, done |-> FALSE,
     promptInput |-> "", intervals |-> {}, bound |-> FALSE]

\* no event yet
NoDemoEvent == [op |-> "none"]

\* the numbers of the gradient demo are decimal fixed-point numbers: a
\* coordinate, a gradient or a learning rate is a whole number of
\* ten-thousandths, a second moment a whole number of their squares
\* (1e-8), and every operation rounds to the nearest of them
Scale == 10000

\* new GradientDemoUI(containerId); the numbers of the demo are kept in
\* units of 1/Scale, the second moments v in units of 1/Scale^2 with
\* vFrac their thousandths
GradientConstructed ==
    [optimizer |-> "sgd", learningRate |-> (12 * Scale) \div 100,
     point |-> [x |-> (36 * Scale) \div 10, y |-> -((22 * Scale) \div 10)],
     m |-> [x |-> 0, y |-> 0], v |-> [x |-> 0, y |-> 0],
     vFrac |-> [x |-> 0, y |-> 0], t |-> 0, steps |-> 0,
     timer |-> 0, dragging |-> FALSE,
     intervals |-> {}, bound |-> FALSE]

\* no event of the gradient demo yet: no timer step, no user event
NoGradEvent == [op |-> "none", ticks |-> 0, events |-> 0, dirty |-> FALSE]

\* new LossDemoUI(containerId)
LossConstructed ==
    [learningRate |-> Tenths(2), targetIndex |-> 0,
     logits |-> <<Tenths(2), Tenths(6), Tenths(-1), Tenths(-5), Tenths(-2), Tenths(-8)>>,
     steps |-> 0, timer |-> 0,
     intervals |-> {}, bound |-> FALSE]

\* the page after the three demo objects are constructed
DemosLoaded ==
    /\ generation = GenerationConstructed
    /\ genLast = NoDemoEvent
    /\ gradient = GradientConstructed
    /\ gradLast = NoGradEvent
    /\ lossDemo = LossConstructed
    /\ lossLast = NoDemoEvent

PageLoaded == SwitcherLoaded /\ TourLoaded /\ DemosLoaded

(***************************************************************************)
(* The tokenizer as a state machine: one call of tokenize and one call of  *)
(* simulateBPE on the same text, the latter one loop iteration at a time.  *)
(***************************************************************************)
Init ==
    /\ text \in Texts
    /\ tokCalled = FALSE
    /\ tokens = <<>>
    /\ bpePc = "idle"
    /\ normalized = ""
    /\ currentTokens = <<>>
    /\ mergeSteps = <<>>
    /\ stepNum = 0
    /\ changed = FALSE
    /\ bpeResult = NoResult
    /\ call = NoCall
    /\ returned = FALSE
    /\ ret = NoResult
    /\ ModuleLoaded
    /\ PageLoaded

Tokenize ==
    /\ ~tokCalled
    /\ tokCalled' = TRUE
    /\ tokens' = tokenize(text)
    /\ UNCHANGED <<text, bpeVars, callVars, demoVars, pageVars>>

\* simulateBPE is called: const normalized = text.toLowerCase().trim()
BPENormalize ==
    /\ bpePc = "idle"
    /\ normalized' = trim(toLowerCase(text))
    /\ bpePc' = "start"
    /\ UNCHANGED <<tokVars, callVars, demoVars, pageVars, currentTokens, mergeSteps, stepNum, changed, bpeResult>>

\* the initial snapshot, up to the while loop
BPEBegin ==
    /\ bpePc = "start"
    /\ currentTokens' = Chars(normalized)
    /\ mergeSteps' = <<[step |-> 0, tokens |-> Chars(normalized),
                        mergedPair |-> Null, mergedResult |-> Null,
                        mergedIndex |-> Null, frequency |-> Null]>>
    /\ stepNum' = 1
    /\ changed' = TRUE
    /\ bpePc' = "loop"
    /\ UNCHANGED <<tokVars, callVars, demoVars, pageVars, normalized, bpeResult>>

\* one iteration of while (changed && stepNum < 20); best is bestMerge and
\* bestMergeIdx after the for loop
BPEIterate ==
    /\ bpePc = "loop"
    /\ changed /\ stepNum < SAFETY_LIMIT
    /\ \E best \in {ScanPairs(currentTokens, 0, NoMerge)} :
          IF best.found
          THEN \E newTokens \in {ApplyMerge(currentTokens, best.idx, best.rule.result)} :
                  /\ mergeSteps' = Append(mergeSteps,
                          [step |-> stepNum, tokens |-> newTokens,
                           mergedPair |-> best.rule.pair,
                           mergedResult |-> best.rule.result,
                           mergedIndex |-> best.idx,
                           frequency |-> best.rule.frequency])
                  /\ currentTokens' = newTokens
                  /\ changed' = TRUE
                  /\ stepNum' = stepNum + 1
          ELSE /\ changed' = FALSE
               /\ UNCHANGED <<mergeSteps, currentTokens, stepNum>>
    /\ UNCHANGED <<tokVars, callVars, demoVars, pageVars, bpePc, normalized, bpeResult>>

\* the loop has ended: finalTokens and the returned object
BPEReturn ==
    /\ bpePc = "loop"
    /\ ~(changed /\ stepNum < SAFETY_LIMIT)
    /\ bpeResult' = [input |-> text, mergeSteps |-> mergeSteps,
                     finalTokens |-> FinalTokens(currentTokens),
                     totalMerges |-> Len(mergeSteps) - 1]
    /\ bpePc' = "done"
    /\ UNCHANGED <<tokVars, callVars, demoVars, pageVars, normalized, currentTokens, mergeSteps, stepNum, changed>>

simulateBPE == BPENormalize \/ BPEBegin \/ BPEIterate \/ BPEReturn

Next == Tokenize \/ BPENormalize \/ BPEBegin \/ BPEIterate \/ BPEReturn

Spec == Init /\ [][Next]_vars

\* simulateBPE is synchronous code: once called it runs to its return
FairSpec == Init /\ [][simulateBPE]_vars /\ WF_vars(simulateBPE)

(***************************************************************************)
(* Properties of simulateBPE.                                              *)
(***************************************************************************)
RuleSet == {BPE_MERGE_RULES[r] : r \in 1..Len(BPE_MERGE_RULES)}

\* the positions of toks whose pair with the next token is the pair of a rule
MergeablePositions(toks) ==
    {p \in 1..(Len(toks) - 1) : \E r \in RuleSet : r.pair = <<toks[p], toks[p + 1]>>}

RuleAt(toks, p) == CHOOSE r \in RuleSet : r.pair = <<toks[p], toks[p + 1]>>

\* the mergeable positions whose rule has the highest frequency
BestPositions(toks) ==
    {p \in MergeablePositions(toks) :
        \A q \in MergeablePositions(toks) :
            RuleAt(toks, q).frequency <= RuleAt(toks, p).frequency}

\* the least element of a non-empty set of positions
Leftmost(ps) == CHOOSE p \in ps : \A q \in ps : p <= q

\* step k of the trace is the merge of the leftmost best pair of step k - 1
StepIsLeftmostBestMerge(trace, k) ==
    LET prev == trace[k - 1].tokens
        cur == trace[k]
    IN  /\ BestPositions(prev) # {}
        /\ LET p == Leftmost(BestPositions(prev))
               r == RuleAt(prev, p)
           IN  /\ Len(cur.tokens) = Len(prev) - 1
               /\ \A i \in 1..Len(cur.tokens) :
                     cur.tokens[i] = IF i < p THEN prev[i]
                                     ELSE IF i = p THEN r.result
                                     ELSE prev[i + 1]
               /\ cur.mergedPair = <<prev[p], prev[p + 1]>>
               /\ cur.mergedResult = r.result
               /\ cur.frequency = r.frequency
               /\ cur.mergedIndex = p - 1
               /\ cur.step = k - 1

TokenTexts(toks) == [i \in 1..Len(toks) |-> toks[i].text]

\* C1: every recorded merge step is the merge of exactly one pair, the
\* leftmost among the pairs of highest rule frequency of the step before it,
\* and holds the sequence after the merge, the pair, the result and the
\* frequency; the first step is the characters of the normalized text;
\* totalMerges is the number of merge steps; the results are those the unit
\* tests expect
C1_LeftmostBestMerge ==
    /\ bpePc \in {"loop", "done"} =>
          /\ Len(mergeSteps) >= 1
          /\ mergeSteps[1].step = 0
          /\ Join(mergeSteps[1].tokens) = trim(toLowerCase(text))
          /\ \A i \in 1..Len(mergeSteps[1].tokens) : Len(mergeSteps[1].tokens[i]) = 1
          /\ \A k \in 2..Len(mergeSteps) : StepIsLeftmostBestMerge(mergeSteps, k)
          /\ currentTokens = mergeSteps[Len(mergeSteps)].tokens
    /\ bpePc = "done" =>
          /\ bpeResult.mergeSteps = mergeSteps
          /\ bpeResult.totalMerges =
                Cardinality({k \in 1..Len(mergeSteps) : mergeSteps[k].step > 0})
          /\ TokenTexts(bpeResult.finalTokens) = currentTokens
          /\ text = "the" =>
                /\ TokenTexts(bpeResult.finalTokens) = <<"the">>
                /\ bpeResult.totalMerges = 2
          /\ text = "standing" =>
                /\ TokenTexts(bpeResult.finalTokens) = <<"st", "an", "d", "ing">>
                /\ bpeResult.totalMerges = 4
          /\ text = "xyz" =>
                /\ TokenTexts(bpeResult.finalTokens) = <<"x", "y", "z">>
                /\ bpeResult.totalMerges = 0

\* a merge was recorded where two positions had the highest frequency, and
\* the call has returned
C1_Witness ==
    /\ bpePc = "done"
    /\ \E k \in 2..Len(mergeSteps) :
          Cardinality(BestPositions(mergeSteps[k - 1].tokens)) >= 2

\* C2 as stated: simulateBPE returns with no mergeable pair left or with
\* exactly 20 merge steps taken
C2_AsStated ==
    bpePc = "done" =>
        \/ MergeablePositions(currentTokens) = {}
        \/ bpeResult.totalMerges = 20

\* C2: simulateBPE terminates, and when it returns either no adjacent pair
\* of the final tokens matches a rule or exactly 19 merge steps have been
\* taken (the trace holds 20 steps, the initial snapshot included)
C2_TerminatesAtMost19 ==
    /\ <>(bpePc = "done")
    /\ [](bpePc = "done" =>
            \/ MergeablePositions(TokenTexts(bpeResult.finalTokens)) = {}
            \/ bpeResult.totalMerges = 19)

\* the loop's bound ended the call: 19 merges and a mergeable pair left
C2_Witness ==
    /\ bpePc = "done"
    /\ bpeResult.totalMerges = 19
    /\ MergeablePositions(currentTokens) # {}

(***************************************************************************)
(* Properties of tokenize.                                                 *)
(***************************************************************************)
VocabSet == {VOCABULARY[i] : i \in 1..Len(VOCABULARY)}

\* the maximal runs of word characters of s, as <<first, last>> positions
WordRuns(s) ==
    {run \in (1..Len(s)) \X (1..Len(s)) :
        /\ run[1] <= run[2]
        /\ \A k \in run[1]..run[2] : IsWordChar(CharAt(s, k))
        /\ run[1] = 1 \/ ~IsWordChar(CharAt(s, run[1] - 1))
        /\ run[2] = Len(s) \/ ~IsWordChar(CharAt(s, run[2] + 1))}

\* the characters of s that are neither white space nor word characters
Symbols(s) ==
    {<<i, i>> : i \in {k \in 1..Len(s) :
                          ~IsWordChar(CharAt(s, k)) /\ ~IsSpace(CharAt(s, k))}}

Segments(s) == WordRuns(s) \cup Symbols(s)

\* the token texts of one segment: the segment when the vocabulary has it,
\* its characters otherwise
SegmentTexts(seg) == IF seg \in VocabSet THEN <<seg>> ELSE Chars(seg)

RECURSIVE TextsOfSegments(_, _)
\* the token texts of the segments segs of s, in the order of their positions
TextsOfSegments(s, segs) ==
    IF segs = {} THEN <<>>
    ELSE LET first == CHOOSE g \in segs : \A h \in segs : g[1] <= h[1]
         IN  SegmentTexts(SubSeq(s, first[1], first[2]))
                 \o TextsOfSegments(s, segs \ {first})

\* C3: tokenize lowercases and trims, splits into maximal word runs and
\* single symbols, and emits in input order one token for a segment of the
\* vocabulary and otherwise one token per character, with the character's id
\* or the id of <unk>; no token is empty and idToToken gives back the text
\* of a token of the vocabulary and <unk> for any other
C3_TokenizeSegments ==
    tokCalled =>
        /\ TokenTexts(tokens) =
              TextsOfSegments(trim(toLowerCase(text)), Segments(trim(toLowerCase(text))))
        /\ \A i \in 1..Len(tokens) :
              /\ tokens[i].text # ""
              /\ tokens[i].id \in 0..(Len(VOCABULARY) - 1)
              /\ IF tokens[i].text \in VocabSet
                 THEN /\ VOCABULARY[tokens[i].id + 1] = tokens[i].text
                      /\ idToToken(tokens[i].id) = tokens[i].text
                 ELSE /\ VOCABULARY[tokens[i].id + 1] = "<unk>"
                      /\ idToToken(tokens[i].id) = "<unk>"
        /\ text = "The cat sat." => TokenTexts(tokens) = <<"the", "cat", "sat", ".">>
        /\ text = "@" => Len(tokens) = 1 /\ tokens[1].text = "@"

\* a call that emitted a whole word of several characters, a character of an
\* unknown word, and a character the vocabulary does not have
C3_Witness ==
    /\ tokCalled
    /\ \E i, j, k \in 1..Len(tokens) :
          /\ Len(tokens[i].text) > 1
          /\ tokens[j].text \notin VocabSet
          /\ k # j /\ Len(tokens[k].text) = 1 /\ tokens[k].text \in VocabSet
    /\ text # trim(toLowerCase(text))

(***************************************************************************)
(* The pure functions as a state machine: a call is drawn, then returns.   *)
(***************************************************************************)
Calls ==
    SoftmaxCalls \cup ApplyTopKCalls \cup ApplyTopPCalls \cup SamplingCalls
        \cup AttentionCalls \cup NormalizeCalls \cup RunMOEDemoCalls
        \cup SampleTokenCalls
        \cup MatmulCalls \cup MatvecCalls \cup TransposeCalls \cup CausalMaskCalls
        \cup {c \in RouteTokenCalls : Len(c.routerWeights[1]) = c.CONFIG.numExperts}

CallInit ==
    /\ call \in Calls
    /\ returned = FALSE
    /\ ret = NoResult
    /\ text = ""
    /\ tokCalled = FALSE
    /\ tokens = <<>>
    /\ bpePc = "idle"
    /\ normalized = ""
    /\ currentTokens = <<>>
    /\ mergeSteps = <<>>
    /\ stepNum = 0
    /\ changed = FALSE
    /\ bpeResult = NoResult
    /\ ModuleLoaded
    /\ PageLoaded

\* the call returns v
Return(v) ==
    /\ ~returned
    /\ returned' = TRUE
    /\ ret' = v
    /\ UNCHANGED <<call, tokVars, bpeVars, pageVars, demoVars>>

CallSoftmax == call.fn = "softmax" /\ Return(Returns(softmax(call.arr)))

CallApplyTopK == call.fn = "applyTopK" /\ Return(Returns(applyTopK(call.probs, call.k)))

CallApplyTopP == call.fn = "applyTopP" /\ Return(Returns(applyTopP(call.probs, call.p)))

CallComputeSamplingDistribution ==
    /\ call.fn = "computeSamplingDistribution"
    /\ Return(Returns(computeSamplingDistribution(
                call.baseLogits, call.temperature, call.topK, call.topP)))

CallMatmul == call.fn = "matmul" /\ Return(matmul(call.A, call.B))

CallMatvec == call.fn = "matvec" /\ Return(Returns(matvec(call.M, call.v)))

CallTranspose == call.fn = "transpose" /\ Return(transpose(call.M))

CallApplyCausalMask ==
    call.fn = "applyCausalMask" /\ Return(Returns(applyCausalMask(call.scores)))

CallScaledDotProductAttention ==
    /\ call.fn = "scaledDotProductAttention"
    /\ Return(scaledDotProductAttention(call.Q, call.K, call.V, call.causal))

CallNormalize == call.fn = "normalize" /\ Return(Returns(normalizeRounded(call.probs)))

CallRunMOEDemo ==
    /\ call.fn = "runMOEDemo"
    /\ Return(Returns(runMOEDemo(call.CONFIG, call.routerWeights, call.embeddings,
                                 call.inputText)))

CallSampleToken ==
    call.fn = "sampleToken" /\ Return(Returns(sampleToken(call.probs, call.r)))

CallRouteToken ==
    /\ call.fn = "routeToken"
    /\ Return(Returns(routeToken(call.CONFIG, call.routerWeights, call.embedding)))

CallNext ==
    \/ CallSoftmax
    \/ CallApplyTopK
    \/ CallApplyTopP
    \/ CallComputeSamplingDistribution
    \/ CallMatmul
    \/ CallMatvec
    \/ CallTranspose
    \/ CallApplyCausalMask
    \/ CallRouteToken
    \/ CallScaledDotProductAttention
    \/ CallNormalize
    \/ CallRunMOEDemo
    \/ CallSampleToken

CallSpec == CallInit /\ [][CallNext]_vars

(***************************************************************************)
(* Properties of the sampling pipeline.                                    *)
(***************************************************************************)
Positions(arr) == 1..Len(arr)

\* position j comes before position i when the entries are put in
\* descending order, equal entries in their original order
Precedes(probs, j, i) ==
    Greater(probs[j], probs[i]) \/ (probs[j] = probs[i] /\ j < i)

\* the sum of the entries at the positions S
SumOver(probs, S) == Sum([j \in Positions(probs) |-> IF j \in S THEN probs[j] ELSE Zero])

\* the total of the entries that come before position i in descending order
PrecedingSum(probs, i) == SumOver(probs, {j \in Positions(probs) : Precedes(probs, j, i)})

\* the k-th largest value of probs, 1 <= k <= Len(probs), counted with repeats
KthLargest(probs, k) ==
    CHOOSE v \in {probs[i] : i \in Positions(probs)} :
        /\ Cardinality({i \in Positions(probs) : Greater(probs[i], v)}) < k
        /\ Cardinality({i \in Positions(probs) : GreaterEq(probs[i], v)}) >= k

\* the positions that pass top-k
TopKSurvivors(probs, k) ==
    IF k >= Len(probs) THEN Positions(probs)
    ELSE {i \in Positions(probs) : GreaterEq(probs[i], KthLargest(probs, k))}

\* the k-th and the (k+1)-th largest values are equal
TieAtBoundary(probs, k) ==
    k < Len(probs) /\ KthLargest(probs, k) = KthLargest(probs, k + 1)

\* the positions that pass top-p
NucleusSurvivors(probs, p) == {i \in Positions(probs) : Less(PrecedingSum(probs, i), p)}

SamplingReturned == returned /\ call.fn = "computeSamplingDistribution"

\* the probabilities the filters of the pipeline start from
InitialProbs == softmax(applyTemperature(call.baseLogits, call.temperature))

AfterTopK ==
    LET S == TopKSurvivors(InitialProbs, call.topK)
        total == SumOver(InitialProbs, S)
    IN  [i \in Positions(InitialProbs) |->
            IF i \in S THEN Over(InitialProbs[i], total) ELSE Zero]

\* the positions that pass both filters of the pipeline
PipelineSurvivors ==
    TopKSurvivors(InitialProbs, call.topK) \cap NucleusSurvivors(AfterTopK, call.topP)

\* C5: for every non-empty finite baseLogits and temperature > 0, every entry
\* of finalProbs outside the set that passed top-k and top-p is exactly 0, and
\* finalProbs sums to 1 whenever one of its entries is nonzero.
C5_ZerosAndUnitSum ==
    SamplingReturned =>
        LET finalProbs == ret.value.finalProbs
        IN  /\ Len(finalProbs) = Len(call.baseLogits)
            /\ \A i \in Positions(finalProbs) :
                    i \notin PipelineSurvivors => finalProbs[i] = Zero
            /\ (\E i \in Positions(finalProbs) : finalProbs[i] # Zero)
                    => Sum(finalProbs) = One

C5_Witness ==
    /\ SamplingReturned
    /\ Cardinality(PipelineSurvivors) >= 2
    /\ \E i \in Positions(InitialProbs) :
            i \notin PipelineSurvivors /\ InitialProbs[i] # Zero
    /\ \E i \in Positions(ret.value.finalProbs) :
            ret.value.finalProbs[i] # Zero /\ ret.value.finalProbs[i] # InitialProbs[i]

ApplyTopKReturned == returned /\ call.fn = "applyTopK"

\* what C6 says of every entry, and that at least k entries survive
TopKEntries ==
    IF call.k >= Len(call.probs) THEN ret.value = call.probs
    ELSE LET kth == KthLargest(call.probs, call.k)
         IN  /\ Len(ret.value) = Len(call.probs)
             /\ \A i \in Positions(call.probs) :
                    /\ GreaterEq(call.probs[i], kth) => ret.value[i] = call.probs[i]
                    /\ Less(call.probs[i], kth) => ret.value[i] = Zero
             /\ Cardinality(TopKSurvivors(call.probs, call.k)) >= call.k

\* the positions whose entry passed the threshold and kept its value
Survived ==
    {i \in Positions(call.probs) :
        ret.value[i] = call.probs[i] /\ i \in TopKSurvivors(call.probs, call.k)}

\* C6 as stated: more than k entries survive exactly when several entries
\* equal the k-th largest value.
C6_AsStated ==
    ApplyTopKReturned /\ call.k < Len(call.probs) =>
        /\ TopKEntries
        /\ Cardinality(Survived) > call.k
            <=> Cardinality({i \in Positions(call.probs) :
                    call.probs[i] = KthLargest(call.probs, call.k)}) > 1

\* C6: applyTopK(probs, k) with k >= 1 returns probs unchanged when
\* k >= length(probs); otherwise every entry that is at least the k-th largest
\* value keeps its value and every entry strictly below it becomes exactly 0,
\* so at least k entries survive, and more than k survive exactly when the
\* (k+1)-th largest value equals the k-th largest value.
C6_ApplyTopK ==
    ApplyTopKReturned =>
        /\ TopKEntries
        /\ call.k < Len(call.probs) =>
            (Cardinality(Survived) > call.k <=> TieAtBoundary(call.probs, call.k))

C6_Witness ==
    /\ ApplyTopKReturned
    /\ call.k < Len(call.probs)
    /\ Cardinality({i \in Positions(call.probs) :
            call.probs[i] = KthLargest(call.probs, call.k)}) > 1
    /\ Cardinality(Survived) = call.k
    /\ \E i \in Positions(call.probs) : call.probs[i] # Zero /\ ret.value[i] = Zero

ApplyTopPReturned == returned /\ call.fn = "applyTopP" /\ call.probs # <<>>

\* the position of the largest entry, the first of them when several are equal
Largest(probs) == CHOOSE i \in Positions(probs) : \A j \in Positions(probs) : ~Precedes(probs, j, i)

\* the kept entries are those whose running total before them is below p,
\* the others are 0, and no entry is kept after one that reaches or crosses p
NucleusEntries ==
    LET kept == NucleusSurvivors(call.probs, call.p)
    IN  /\ Len(ret.value) = Len(call.probs)
        /\ \A i \in Positions(call.probs) :
                ret.value[i] = IF i \in kept THEN call.probs[i] ELSE Zero
        /\ \A i \in kept :
                GreaterEq(Plus(PrecedingSum(call.probs, i), call.probs[i]), call.p)
                    => \A j \in Positions(call.probs) :
                            Precedes(call.probs, i, j) => ret.value[j] = Zero

\* C7 as stated: for every p the largest entry is among the kept ones.
C7_AsStated ==
    ApplyTopPReturned =>
        /\ NucleusEntries
        /\ ret.value[Largest(call.probs)] = call.probs[Largest(call.probs)]

\* C7: for every non-empty probs and every p, applyTopP(probs, p) keeps, in
\* descending order of probability, exactly the entries whose running total
\* before adding them is below p and sets all other entries to 0; the entry
\* whose addition makes the total reach or cross p is the last one kept; for
\* every p > 0 the largest entry is kept, and for p <= 0 no entry is kept and
\* every entry of the result is 0.
C7_ApplyTopP ==
    ApplyTopPReturned =>
        /\ NucleusEntries
        /\ Greater(call.p, Zero) =>
                /\ Largest(call.probs) \in NucleusSurvivors(call.probs, call.p)
                /\ ret.value[Largest(call.probs)] = call.probs[Largest(call.probs)]
        /\ ~Greater(call.p, Zero) =>
                \A i \in Positions(call.probs) : ret.value[i] = Zero

C7_Witness ==
    /\ ApplyTopPReturned
    /\ Greater(call.p, Zero)
    /\ \E i, j \in Positions(call.probs) :
            /\ i # j
            /\ ret.value[i] # Zero
            /\ ret.value[j] = Zero
            /\ call.probs[j] # Zero
            /\ Greater(Plus(PrecedingSum(call.probs, i), call.probs[i]), call.p)

(***************************************************************************)
(* Contract violations.                                                    *)
(***************************************************************************)
\* the rows of M do not all have the same length
Ragged(M) == \E i, j \in 1..Len(M) : Len(M[i]) # Len(M[j])

\* the call breaks the contract of the function it calls
ContractViolation ==
    \/ call.fn = "matmul" /\ Len(call.A[1]) # Len(call.B)
    \/ call.fn = "matvec" /\ Len(call.M[1]) # Len(call.v)
    \/ call.fn = "transpose" /\ Ragged(call.M)
    \/ call.fn = "softmax" /\ call.arr = <<>>
    \/ call.fn = "applyTopK" /\ call.probs = <<>>
    \/ call.fn = "applyTopP" /\ call.probs = <<>>

\* C8: matmul, matvec and transpose called with mismatched matrix dimensions,
\* and softmax, applyTopK and applyTopP called with an empty array, signal an
\* error instead of returning a result.
C8_AsStated == returned /\ ContractViolation => ret.threw

(***************************************************************************)
(* The router.                                                             *)
(***************************************************************************)
RouteTokenReturned == returned /\ call.fn = "routeToken"

\* the experts routeToken selected, as positions of allProbs
Selected == {ret.value.topExperts[i].index + 1 : i \in 1..Len(ret.value.topExperts)}

\* C9: routeToken selects exactly topK distinct experts (all of them when
\* topK >= numExperts), none of which has a lower router probability than an
\* unselected expert, and gives each selected expert the gate weight
\* prob / (sum of the selected probs), so the gate weights of one token sum to
\* 1; when topK >= numExperts each gate weight equals the expert's unfiltered
\* softmax probability.
C9_RouteToken ==
    RouteTokenReturned =>
        LET r == ret.value
            numExperts == call.CONFIG.numExperts
            topK == call.CONFIG.topK
            logits == [e \in 1..numExperts |->
                         Sum([d \in EmbedRange |->
                                Times(call.routerWeights[d][e], call.embedding[d])])]
            total == SumOver(r.allProbs, Selected)
        IN  /\ r.allProbs = softmax(logits)
            /\ Len(r.topExperts) = IF topK <= numExperts THEN topK ELSE numExperts
            /\ Cardinality(Selected) = Len(r.topExperts)
            /\ Selected \subseteq 1..numExperts
            /\ \A s \in Selected : \A u \in (1..numExperts) \ Selected :
                    ~Less(r.allProbs[s], r.allProbs[u])
            /\ \A i \in 1..Len(r.topExperts) :
                    /\ r.topExperts[i].prob = r.allProbs[r.topExperts[i].index + 1]
                    /\ r.topExperts[i].weight = Over(r.topExperts[i].prob, total)
            /\ Sum([i \in 1..Len(r.topExperts) |-> r.topExperts[i].weight]) = One
            /\ topK >= numExperts =>
                    /\ Selected = 1..numExperts
                    /\ \A i \in 1..Len(r.topExperts) :
                            r.topExperts[i].weight = r.allProbs[r.topExperts[i].index + 1]

C9_Witness ==
    /\ RouteTokenReturned
    /\ call.CONFIG.topK = 2
    /\ call.CONFIG.numExperts = 3
    /\ Cardinality(Selected) = 2
    /\ \E i \in 1..2 : ret.value.topExperts[i].weight # ret.value.topExperts[i].prob
    /\ ret.value.expert1.weight # ret.value.expert2.weight

(***************************************************************************)
(* The causal mask.                                                        *)
(***************************************************************************)
CausalMaskReturned == returned /\ call.fn = "applyCausalMask"

\* C10: for every square matrix scores, applyCausalMask returns a matrix
\* whose entry [i][j] equals scores[i][j] for every j <= i and equals
\* -Infinity for every j > i.
C10_CausalMask ==
    CausalMaskReturned =>
        /\ Len(ret.value) = Len(call.scores)
        /\ \A i \in 1..Len(call.scores) :
                /\ Len(ret.value[i]) = Len(call.scores[i])
                /\ \A j \in 1..Len(call.scores[i]) :
                        ret.value[i][j] = IF j <= i THEN call.scores[i][j] ELSE NegInf

C10_Witness ==
    /\ CausalMaskReturned
    /\ Len(call.scores) >= 2
    /\ ret.value[1][2] = NegInf
    /\ call.scores[1][2] # NegInf
    /\ ret.value[2][1] = call.scores[2][1]
    /\ ret.value[2][2] = call.scores[2][2]

(***************************************************************************)
(* Attention.                                                              *)
(***************************************************************************)
CausalAttentionReturned ==
    returned /\ call.fn = "scaledDotProductAttention" /\ call.causal

\* C11: scaledDotProductAttention with causal = true returns weights and
\* output with one row per query, and for every row i the weights sum to 1
\* and weights[i][j] is exactly 0 for every j > i.
C11_CausalAttention ==
    CausalAttentionReturned =>
        /\ ~ret.threw
        /\ Len(ret.value.weights) = Len(call.Q)
        /\ Len(ret.value.output) = Len(call.Q)
        /\ \A i \in 1..Len(call.Q) :
                /\ Len(ret.value.weights[i]) = Len(call.K)
                /\ Len(ret.value.output[i]) = Len(call.V[1])
                /\ Sum(ret.value.weights[i]) = One
                /\ \A j \in 1..Len(call.K) : j > i => ret.value.weights[i][j] = Zero

C11_Witness ==
    /\ CausalAttentionReturned
    /\ call.Q = <<<<Num(1), Num(0)>>, <<Num(0), Num(1)>>>>
    /\ call.K = call.Q
    /\ call.V = TestValues
    /\ ret.value.weights[1] = <<One, Zero>>
    /\ ret.value.weights[2][1] # Zero
    /\ Less(ret.value.weights[2][1], ret.value.weights[2][2])
    /\ ret.value.output[1] = <<Num(10), Num(0)>>

(***************************************************************************)
(* softmax.                                                                *)
(***************************************************************************)
SoftmaxReturned == returned /\ call.fn = "softmax"

\* the vector is not empty, has a finite entry and has no +Infinity entry
SoftmaxDomain(arr) ==
    /\ arr # <<>>
    /\ \E i \in Positions(arr) : IsFinite(arr[i])
    /\ \A i \in Positions(arr) : arr[i] # PosInf /\ ~IsNaN(arr[i])

\* C12: for every non-empty input vector with at least one finite entry and
\* no +Infinity entry, softmax returns a vector that sums to 1, gives a
\* strictly larger input a strictly larger or equal output, and gives every
\* -Infinity input the probability exactly 0.
C12_Softmax ==
    SoftmaxReturned /\ SoftmaxDomain(call.arr) =>
        /\ Len(ret.value) = Len(call.arr)
        /\ Sum(ret.value) = One
        /\ \A i, j \in Positions(call.arr) :
                Greater(call.arr[i], call.arr[j]) => GreaterEq(ret.value[i], ret.value[j])
        /\ \A i \in Positions(call.arr) : call.arr[i] = NegInf => ret.value[i] = Zero

C12_Witness ==
    /\ SoftmaxReturned
    /\ SoftmaxDomain(call.arr)
    /\ \E i, j, k \in Positions(call.arr) :
            /\ call.arr[i] = NegInf
            /\ ret.value[i] = Zero
            /\ Greater(call.arr[j], call.arr[k])
            /\ Greater(ret.value[j], ret.value[k])
            /\ Greater(ret.value[k], Zero)

(***************************************************************************)
(* normalize of the sampling pipeline.                                     *)
(***************************************************************************)
NormalizeReturned == returned /\ call.fn = "normalize"

\* normalize applied to what normalize returned
NormalizedAgain == normalizeRounded(ret.value)

\* the input unchanged when its sum is 0, else every entry over the sum
DividesBySum ==
    LET sum == RoundedSum(call.probs)
    IN  /\ Len(ret.value) = Len(call.probs)
        /\ sum = Zero => ret.value = call.probs
        /\ sum # Zero =>
                \A i \in Positions(call.probs) :
                    ret.value[i] = RoundToNearest(Over(call.probs[i], sum))

\* |a - b| <= bound
Within(a, b, bound) ==
    /\ GreaterEq(bound, Minus(a, b))
    /\ GreaterEq(bound, Minus(b, a))

RoutedTokens == SliceTo(tokenize(call.inputText), 10)

\* runMOEDemo returned a result for a text that has tokens
RunMOEDemoReturned == returned /\ call.fn = "runMOEDemo" /\ Len(RoutedTokens) > 0

\* the routing of token i
RoutingOf(i) == routeToken(call.CONFIG, call.routerWeights, call.embeddings[i])

\* the gate weight token i gives expert e (0-based), 0 when it is not selected
GateWeightOf(i, e) ==
    LET top == RoutingOf(i).topExperts
        at == {q \in 1..Len(top) : top[q].index = e}
    IN  IF at = {} THEN Zero ELSE top[CHOOSE q \in at : TRUE].weight

Experts == 1..call.CONFIG.numExperts

\* the number of tokens that selected expert e (1-based)
SelectionCount(e) ==
    Cardinality({i \in 1..Len(RoutedTokens) : GateWeightOf(i, e - 1) # Zero})

\* each expert's absolute deviation of its count from the ideal count
Deviations ==
    [e \in Experts |->
        LET diff == Minus(Num(SelectionCount(e)),
                          Frac(Len(RoutedTokens) * call.CONFIG.topK, call.CONFIG.numExperts))
        IN  IF Less(diff, Zero) THEN Neg(diff) ELSE diff]

\* the counts, the summed gate weights, the ideal count, and the average and
\* the maximum of the deviations are as C19 says
LoadBalanceStatistics ==
    LET r == ret.value
    IN  /\ r.tokens = RoutedTokens
        /\ Len(r.routingResults) = Len(RoutedTokens)
        /\ \A i \in 1..Len(RoutedTokens) : r.routingResults[i].routing = RoutingOf(i)
        /\ r.expertCounts = [e \in Experts |-> SelectionCount(e)]
        /\ r.expertWeights =
                [e \in Experts |->
                    Sum([i \in 1..Len(RoutedTokens) |-> GateWeightOf(i, e - 1)])]
        /\ r.loadBalance.idealCount =
                Frac(Len(RoutedTokens) * call.CONFIG.topK, call.CONFIG.numExperts)
        /\ r.loadBalance.avgImbalance = Over(Sum(Deviations), Num(call.CONFIG.numExperts))
        /\ \A e \in Experts : GreaterEq(r.loadBalance.maxImbalance, Deviations[e])
        /\ \E e \in Experts : r.loadBalance.maxImbalance = Deviations[e]

\* C19 as stated: the result also holds each expert's absolute deviation.
C19_AsStated ==
    RunMOEDemoReturned =>
        /\ LoadBalanceStatistics
        /\ Deviations \in {ret.value.expertWeights,
                           [e \in Experts |-> Num(ret.value.expertCounts[e])]}

\* C19: for a batch of n routed tokens (the first 10 tokens of the text at
\* most) runMOEDemo reports for each expert the number of tokens that
\* selected it and the sum of the gate weights it received, the ideal count
\* n*topK/numExperts, and the average and the maximum over the experts of the
\* absolute deviation of an expert's count from the ideal count; the
\* deviations of the single experts are not part of the result.
C19_LoadBalance ==
    RunMOEDemoReturned =>
        /\ LoadBalanceStatistics
        /\ DOMAIN ret.value =
                {"tokens", "config", "routingResults", "expertCounts", "expertWeights",
                 "loadBalance"}
        /\ DOMAIN ret.value.loadBalance = {"idealCount", "avgImbalance", "maxImbalance"}

C19_Witness ==
    /\ RunMOEDemoReturned
    /\ Len(RoutedTokens) = 3
    /\ call.CONFIG.numExperts = 3
    /\ call.CONFIG.topK = 2
    /\ ret.value.expertCounts = <<3, 2, 1>>
    /\ ret.value.loadBalance.idealCount = Num(2)
    /\ ret.value.loadBalance.maxImbalance = One
    /\ ret.value.loadBalance.avgImbalance = Frac(2, 3)

(***************************************************************************)
(* sampleToken.                                                            *)
(***************************************************************************)
SampleTokenReturned == returned /\ call.fn = "sampleToken" /\ call.probs # <<>>

\* probs[0] + ... + probs[i], i 0-based
CumulativeSum(probs, i) == SumOver(probs, 1..(i + 1))

\* the indices whose cumulative sum exceeds r
Exceeding(probs, r) ==
    {i \in 0..(Len(probs) - 1) : Greater(CumulativeSum(probs, i), r)}

\* C20: for every non-empty probs and every r in [0,1), sampleToken returns
\* the smallest index i for which probs[0] + ... + probs[i] exceeds r, or the
\* last index when no cumulative sum exceeds r; the returned value is always
\* an index in 0..length-1.
C20_SampleToken ==
    SampleTokenReturned =>
        LET over == Exceeding(call.probs, call.r)
        IN  /\ ret.value \in 0..(Len(call.probs) - 1)
            /\ over # {} => ret.value \in over /\ \A j \in over : ret.value <= j
            /\ over = {} => ret.value = Len(call.probs) - 1

C20_Witness ==
    /\ SampleTokenReturned
    /\ Len(call.probs) = 3
    /\ ret.value = 1
    /\ call.probs[1] # Zero
    /\ CumulativeSum(call.probs, 0) = call.r

(***************************************************************************)
(* The tokenizer module's tables and the arrays its callers hold.  An      *)
(* array a function returns is either a new array or one of the module's   *)
(* own: held.tableRows[r] is 0 for a new array and otherwise the row of    *)
(* EMBEDDINGS that held.rows[r] is.                                        *)
(***************************************************************************)
\* a getEmbedding that hands out the table's own row
getEmbeddingNoCopy(table, tokenId) ==
    IF tokenId >= 0 /\ tokenId < Len(table)
    THEN [value |-> table[tokenId + 1], tableRow |-> tokenId + 1]
    ELSE [value |-> randomVector(EMBED_DIM, tokenId), tableRow |-> 0]

\* getEmbedding: [...EMBEDDINGS[tokenId]] is a new array with the row's
\* entries; an id outside the table gets a new random vector
getEmbedding(table, tokenId) ==
    IF tokenId >= 0 /\ tokenId < Len(table)
    THEN [value |-> table[tokenId + 1], tableRow |-> 0]
    ELSE [value |-> randomVector(EMBED_DIM, tokenId), tableRow |-> 0]

\* getPositionalEncoding: entry i (from 0) is the sine (i even) or cosine
\* (i odd) of pos / 10000^(2 * floor(i / 2) / dim), kept as a term
getPositionalEncoding(pos, dim) ==
    [i \in 1..dim |->
        [fn |-> IF (i - 1) % 2 = 0 THEN "sin" ELSE "cos",
         pos |-> pos, twiceFloorHalf |-> 2 * ((i - 1) \div 2), dim |-> dim]]

\* getEmbeddings: tokens.map((token, pos) => embedding.map((e, i) => e + positional[i])),
\* every row a new array
getEmbeddings(table, toks) ==
    [p \in 1..Len(toks) |->
        LET embedding == getEmbedding(table, toks[p].id).value
            positional == getPositionalEncoding(p - 1, EMBED_DIM)
        IN  [i \in 1..Len(embedding) |-> [e |-> embedding[i], plus |-> positional[i]]]]

\* the rule of BPE_MERGE_RULES a rule object is
RuleIndex(rule) == CHOOSE r \in 1..Len(BPE_MERGE_RULES) : BPE_MERGE_RULES[r] = rule

RECURSIVE MergeLoop(_, _, _, _)
\* the while loop of simulateBPE from stepNum n on, best being bestMerge and
\* bestMergeIdx of the iteration's scan; mergedPair is the rule's own pair
\* array, read here as the array's entries at the time of the call
MergeIteration(pairs, toks, steps, n, best) ==
    IF ~best.found THEN [tokens |-> toks, steps |-> steps]
    ELSE CHOOSE run \in
            {MergeLoop(pairs, newTokens,
                       Append(steps,
                           [step |-> n, tokens |-> newTokens,
                            mergedPair |-> pairs[RuleIndex(best.rule)],
                            mergedResult |-> best.rule.result,
                            mergedIndex |-> best.idx,
                            frequency |-> best.rule.frequency]),
                       n + 1) :
                newTokens \in {ApplyMerge(toks, best.idx, best.rule.result)}} : TRUE

\* while (changed && stepNum < 20), every value computed once
MergeLoop(pairs, toks, steps, n) ==
    IF ~(n < SAFETY_LIMIT) THEN [tokens |-> toks, steps |-> steps]
    ELSE CHOOSE run \in
            {MergeIteration(pairs, toks, steps, n, best) :
                best \in {ScanPairs(toks, 0, NoMerge)}} : TRUE

\* simulateBPE from the initial snapshot on
MergeTrace(pairs, t, chars) ==
    CHOOSE result \in
        {[input |-> t, mergeSteps |-> run.steps,
          finalTokens |-> FinalTokens(run.tokens),
          totalMerges |-> Len(run.steps) - 1] :
            run \in {MergeLoop(pairs, chars,
                               <<[step |-> 0, tokens |-> chars, mergedPair |-> Null,
                                  mergedResult |-> Null, mergedIndex |-> Null,
                                  frequency |-> Null]>>, 1)}} : TRUE

\* simulateBPE as one call, on the module whose rules' pair arrays are pairs
simulateBPEResult(pairs, t) ==
    CHOOSE result \in
        {MergeTrace(pairs, t, chars) : chars \in {Chars(trim(toLowerCase(t)))}} : TRUE

\* the sign of a table entry rng() * 2 - 1 (of an embedding entry, of the
\* entry behind a sum with a positional term, of a router weight): the
\* number the router's arithmetic is given for it
Coarse(entry) ==
    LET s == IF "e" \in DOMAIN entry THEN entry.e
             ELSE IF "tenthOf" \in DOMAIN entry THEN entry.tenthOf
             ELSE entry
    IN  IF "hi" \in DOMAIN s /\ s.hi < Limb \div 2 THEN Num(-1) ELSE Num(1)

CoarseMatrix(m) == [r \in 1..Len(m) |-> [c \in 1..Len(m[r]) |-> Coarse(m[r][c])]]

\* const CONFIG of the MOE demo, cut down to the experts the model keeps
\* (the source has numExperts 8)
DemoConfig == [numExperts |-> MaxExperts, topK |-> 2]

\* const routerWeights = randomMatrix(CONFIG.embedDim, CONFIG.numExperts, 42424242)
BuiltRouterWeights == randomMatrix(EMBED_DIM, DemoConfig.numExperts, 42424242)

\* runMOEDemo(text) on the module whose embedding table is table
runMOEDemoOn(table, t) ==
    CHOOSE result \in
        {runMOEDemo(DemoConfig, weights, embeddings, t) :
            weights \in {CoarseMatrix(BuiltRouterWeights)},
            embeddings \in {CoarseMatrix(getEmbeddings(table, SliceTo(tokenize(t), 10)))}} : TRUE

\* the ids getEmbedding is called with: rows of the table, its last row,
\* and ids past its end
FrameIds == {0, 4, Len(VOCABULARY) - 1, Len(VOCABULARY), 1000}

\* the texts the interface is called with
FrameTexts == {"", "The cat", "then."}

\* the number a caller writes into an array it holds: -1
CallerValues == {SeedState(0)}

FrameGetEmbedding ==
    \E id \in FrameIds :
        \E result \in {getEmbedding(EMBEDDINGS, id)} :
            /\ last' = [fn |-> "getEmbedding", arg |-> id, value |-> result.value]
            /\ held' = [rows |-> <<result.value>>, tableRows |-> <<result.tableRow>>]
            /\ UNCHANGED <<EMBEDDINGS, rulePairs, tokVars, bpeVars, callVars, demoVars, uiVars>>

FrameGetEmbeddings ==
    \E t \in FrameTexts :
        \E result \in {getEmbeddings(EMBEDDINGS, tokenize(t))} :
            /\ last' = [fn |-> "getEmbeddings", arg |-> t, value |-> result]
            /\ held' = [rows |-> result, tableRows |-> [r \in 1..Len(result) |-> 0]]
            /\ UNCHANGED <<EMBEDDINGS, rulePairs, tokVars, bpeVars, callVars, demoVars, uiVars>>

\* the caller assigns to an entry of an array it holds; if the array is a
\* row of the table, the table has the new entry too
CallerModifies ==
    \E r \in 1..Len(held.rows) :
        \E i \in 1..Len(held.rows[r]), v \in CallerValues :
            /\ held.rows[r][i] # v
            /\ held' = [held EXCEPT !.rows[r][i] = v]
            /\ EMBEDDINGS' = IF held.tableRows[r] = 0 THEN EMBEDDINGS
                             ELSE [EMBEDDINGS EXCEPT ![held.tableRows[r]][i] = v]
            /\ UNCHANGED <<rulePairs, last, tokVars, bpeVars, callVars, demoVars, uiVars>>

FrameTokenize ==
    \E t \in FrameTexts :
        /\ last' = [fn |-> "tokenize", arg |-> t, value |-> tokenize(t)]
        /\ UNCHANGED <<EMBEDDINGS, rulePairs, held, tokVars, bpeVars, callVars, demoVars, uiVars>>

FrameSimulateBPE ==
    \E t \in FrameTexts :
        /\ last' = [fn |-> "simulateBPE", arg |-> t, value |-> simulateBPEResult(rulePairs, t)]
        /\ UNCHANGED <<EMBEDDINGS, rulePairs, held, tokVars, bpeVars, callVars, demoVars, uiVars>>

FrameRunMOEDemo ==
    \E t \in FrameTexts :
        /\ last' = [fn |-> "runMOEDemo", arg |-> t, value |-> [result |-> runMOEDemoOn(EMBEDDINGS, t)]]
        /\ UNCHANGED <<EMBEDDINGS, rulePairs, held, tokVars, bpeVars, callVars, demoVars, uiVars>>

FrameNext ==
    \/ FrameGetEmbedding
    \/ FrameGetEmbeddings
    \/ CallerModifies
    \/ FrameTokenize
    \/ FrameSimulateBPE
    \/ FrameRunMOEDemo

FrameInit ==
    /\ ModuleLoaded
    /\ PageLoaded
    /\ call = NoCall
    /\ returned = FALSE
    /\ ret = NoResult
    /\ text = ""
    /\ tokCalled = FALSE
    /\ tokens = <<>>
    /\ bpePc = "idle"
    /\ normalized = ""
    /\ currentTokens = <<>>
    /\ mergeSteps = <<>>
    /\ stepNum = 0
    /\ changed = FALSE
    /\ bpeResult = NoResult

\* the loaded module and any sequence of calls by one caller
FrameSpec == FrameInit /\ [][FrameNext]_vars

\* C14: the embedding table and the merge rules' pair arrays stay as the
\* module built them, whatever is called and whatever the caller writes into
\* the vectors it was given; so getEmbedding, tokenize and simulateBPE return
\* what they return on the newly loaded module
C14_TablesNeverChange ==
    /\ EMBEDDINGS = BuiltEmbeddings
    /\ rulePairs = BuiltRulePairs
    /\ last.fn = "getEmbedding" =>
            last.value = getEmbedding(BuiltEmbeddings, last.arg).value
    /\ last.fn = "getEmbeddings" =>
            last.value = getEmbeddings(BuiltEmbeddings, tokenize(last.arg))
    /\ last.fn = "tokenize" => last.value = tokenize(last.arg)
    /\ last.fn = "simulateBPE" =>
            last.value = simulateBPEResult(BuiltRulePairs, last.arg)

\* the caller has overwritten both entries of the vector getEmbedding(4)
\* returned, and the next getEmbedding(4) returns the vector as it was
C14_Witness ==
    /\ last.fn = "getEmbedding" /\ last.arg = 4
    /\ \A i \in EmbedRange : held.rows[1][i] \in CallerValues
    /\ getEmbedding(EMBEDDINGS, 4).value = last.value
    /\ last.value = <<[hi |-> 44848, lo |-> 64125], [hi |-> 7150, lo |-> 31160]>>

(***************************************************************************)
(* The section switcher's functions.  A switcher value sw holds the parts  *)
(* of the state a listener reads or changes: activeSection, the tabs that  *)
(* initSectionSwitcher found (none before it is called), tabState and the  *)
(* calls of the change handler made so far in the current event.           *)
(***************************************************************************)
\* most calls of initSectionSwitcher (each adds a listener pair to every tab)
MaxInits == 2

\* updateTabState: every tab's class, aria-selected and tabindex follow
\* tab.dataset.section === activeSection
\* an updateTabState that marks the active tab and leaves the others alone
updateTabStateActiveOnly(sw, section) ==
    [t \in TabSections |->
        IF t \in sw.tabs /\ t = section
        THEN [active |-> TRUE, ariaSelected |-> "true", tabindex |-> "0"]
        ELSE sw.tabState[t]]

\* updateTabState once activeSection is section: the class, aria-selected and
\* tabindex of every tab in tabs follow tab.dataset.section === activeSection
updateTabState(sw, section) ==
    [t \in TabSections |->
        IF t \in sw.tabs
        THEN [active |-> (t = section),
              ariaSelected |-> IF t = section THEN "true" ELSE "false",
              tabindex |-> IF t = section THEN "0" ELSE "-1"]
        ELSE sw.tabState[t]]

\* a setActiveSection that notifies whenever asked to, changed or not
setActiveSectionAlwaysNotify(sw, section, notify, handler) ==
    IF ~isValidSection(section) THEN sw
    ELSE [activeSection |-> section,
          tabs |-> sw.tabs,
          tabState |-> updateTabState(sw, section),
          calls |-> IF notify /\ handler = "function"
                    THEN Append(sw.calls, section) ELSE sw.calls]

\* setActiveSection(section, { notify }) with changeHandler of type handler
setActiveSection(sw, section, notify, handler) ==
    IF ~isValidSection(section) THEN sw
    ELSE [activeSection |-> section,
          tabs |-> sw.tabs,
          tabState |-> updateTabState(sw, section),
          calls |-> IF notify /\ sw.activeSection # section /\ handler = "function"
                    THEN Append(sw.calls, section) ELSE sw.calls]

RECURSIVE RunListeners(_, _, _, _)
\* the n listeners of one tab for one event, each calling
\* setActiveSection(section, { notify: true })
RunListeners(sw, n, section, handler) ==
    IF n = 0 THEN sw
    ELSE RunListeners(setActiveSection(sw, section, TRUE, handler), n - 1, section, handler)

\* a handleKeydown whose arrows do not wrap around
NextIndexNoWrap(currentIndex, key) ==
    CASE key = "ArrowRight" -> IF currentIndex + 1 < Len(VALID_SECTIONS)
                               THEN currentIndex + 1 ELSE currentIndex
      [] key = "ArrowLeft" -> IF currentIndex > 0 THEN currentIndex - 1 ELSE currentIndex
      [] key = "Home" -> 0
      [] key = "End" -> Len(VALID_SECTIONS) - 1
      [] OTHER -> -1

\* the switch of handleKeydown: nextIndex, or -1 for the default branch (return)
NextIndex(currentIndex, key) ==
    CASE key = "ArrowRight" -> (currentIndex + 1) % Len(VALID_SECTIONS)
      [] key = "ArrowLeft" -> (currentIndex - 1 + Len(VALID_SECTIONS)) % Len(VALID_SECTIONS)
      [] key = "Home" -> 0
      [] key = "End" -> Len(VALID_SECTIONS) - 1
      [] OTHER -> -1

\* the switcher value of the current state, before an event's listeners run
Switcher ==
    [activeSection |-> activeSection,
     tabs |-> IF listeners > 0 THEN TabSections ELSE {},
     tabState |-> tabState, calls |-> <<>>]

\* the keys pressed on a tab
Keys == {"ArrowRight", "ArrowLeft", "Home", "End", "Enter", "ArrowDown"}

\* the sections asked for: the valid ones and one that is not
RequestedSections == TabSections \cup {"glossary"}

\* initSectionSwitcher({ defaultSection, onChange })
InitSectionSwitcher ==
    \E defaultSection \in RequestedSections, onChange \in {"function", "undefined"} :
        \E sw \in {setActiveSection([Switcher EXCEPT !.tabs = TabSections],
                                    defaultSection, FALSE, onChange)} :
            /\ listeners < MaxInits
            /\ changeHandler' = onChange
            /\ listeners' = listeners + 1
            /\ activeSection' = sw.activeSection
            /\ tabState' = sw.tabState
            /\ onChangeCalls' = sw.calls
            /\ navLast' = [op |-> "initSectionSwitcher", requested |-> defaultSection,
                           key |-> Null, before |-> activeSection, prevented |-> FALSE]
            /\ UNCHANGED <<focused, tokVars, bpeVars, callVars, demoVars, frameVars, tourVars>>

\* a click on the tab of section tab: every click listener of the tab runs
ClickTab ==
    \E tab \in TabSections :
        \E sw \in {RunListeners(Switcher, listeners, tab, changeHandler)} :
            /\ listeners > 0
            /\ activeSection' = sw.activeSection
            /\ tabState' = sw.tabState
            /\ onChangeCalls' = sw.calls
            /\ navLast' = [op |-> "click", requested |-> tab, key |-> Null,
                           before |-> activeSection, prevented |-> FALSE]
            /\ UNCHANGED <<changeHandler, listeners, focused, tokVars, bpeVars, callVars, demoVars, frameVars, tourVars>>

\* a key is pressed on the tab of section tab: every keydown listener of the
\* tab runs handleKeydown
KeydownOnTab ==
    \E tab \in TabSections, key \in Keys :
        \E nextIndex \in {NextIndex(getIndex(tab), key)} :
            /\ listeners > 0
            /\ IF nextIndex < 0
               THEN /\ onChangeCalls' = <<>>
                    /\ UNCHANGED <<activeSection, tabState, focused>>
               ELSE \E sw \in {RunListeners(Switcher, listeners,
                                            VALID_SECTIONS[nextIndex + 1], changeHandler)} :
                        /\ activeSection' = sw.activeSection
                        /\ tabState' = sw.tabState
                        /\ onChangeCalls' = sw.calls
                        /\ focused' = VALID_SECTIONS[nextIndex + 1]
            /\ navLast' = [op |-> "keydown", requested |-> tab, key |-> key,
                           before |-> activeSection, prevented |-> (nextIndex >= 0)]
            /\ UNCHANGED <<changeHandler, listeners, tokVars, bpeVars, callVars, demoVars, frameVars, tourVars>>

\* a call of the exported setActiveSection(section, { notify })
SetActiveSectionCall ==
    \E section \in RequestedSections, notify \in BOOLEAN :
        \E sw \in {setActiveSection(Switcher, section, notify, changeHandler)} :
            /\ activeSection' = sw.activeSection
            /\ tabState' = sw.tabState
            /\ onChangeCalls' = sw.calls
            /\ navLast' = [op |-> IF notify THEN "setActiveSection notify" ELSE "setActiveSection",
                           requested |-> section, key |-> Null,
                           before |-> activeSection, prevented |-> FALSE]
            /\ UNCHANGED <<changeHandler, listeners, focused, tokVars, bpeVars, callVars, demoVars, frameVars, tourVars>>

SwitcherNext == InitSectionSwitcher \/ ClickTab \/ KeydownOnTab \/ SetActiveSectionCall

UiInit ==
    /\ ModuleLoaded
    /\ PageLoaded
    /\ call = NoCall
    /\ returned = FALSE
    /\ ret = NoResult
    /\ text = ""
    /\ tokCalled = FALSE
    /\ tokens = <<>>
    /\ bpePc = "idle"
    /\ normalized = ""
    /\ currentTokens = <<>>
    /\ mergeSteps = <<>>
    /\ stepNum = 0
    /\ changed = FALSE
    /\ bpeResult = NoResult

\* the section tabs: their events and the switcher's calls in any order
SwitcherSpec == UiInit /\ [][SwitcherNext]_vars

\* the last event or call is a click or a key press with a change handler set
ClickOrKey == navLast.op \in {"click", "keydown"} /\ changeHandler = "function"

\* the section the last click or key press asked for
RequestedByEvent ==
    IF navLast.op = "click" THEN navLast.requested
    ELSE IF navLast.op = "keydown" /\ navLast.prevented
    THEN VALID_SECTIONS[NextIndex(getIndex(navLast.requested), navLast.key) + 1]
    ELSE Null

\* some initSectionSwitcher has been called
SwitcherInitialised == listeners > 0

\* C15: after initSectionSwitcher with a valid defaultSection the active
\* section is defaultSection and the tabs are marked; and once the tabs of
\* an initialised switcher are marked, the active section is a valid one and
\* exactly its tab has aria-selected 'true' and tabindex '0' (and the class
\* active), every other tab 'false' and '-1'
C15_ActiveTabMarked ==
    /\ (navLast.op = "initSectionSwitcher" /\ isValidSection(navLast.requested))
            => activeSection = navLast.requested
    /\ (SwitcherInitialised /\ tabState # RenderedTabs) =>
            /\ isValidSection(activeSection)
            /\ \A t \in TabSections :
                  /\ tabState[t].ariaSelected = (IF t = activeSection THEN "true" ELSE "false")
                  /\ tabState[t].tabindex = (IF t = activeSection THEN "0" ELSE "-1")
                  /\ tabState[t].active = (t = activeSection)
    /\ (navLast.op = "initSectionSwitcher" /\ isValidSection(navLast.requested))
            => tabState # RenderedTabs

\* initialised with training, then End pressed on the training tab: inference
\* is active and only its tab is marked
C15_Witness ==
    /\ navLast.op = "keydown" /\ navLast.key = "End" /\ navLast.before = "training"
    /\ activeSection = "inference"
    /\ tabState["inference"].ariaSelected = "true" /\ tabState["inference"].tabindex = "0"
    /\ tabState["training"].ariaSelected = "false" /\ tabState["training"].tabindex = "-1"
    /\ tabState["architecture"].ariaSelected = "false"

\* the section the last event or call asked for (null: none)
Requested ==
    IF navLast.op \in {"click", "keydown"} THEN RequestedByEvent ELSE navLast.requested

\* C16: a click makes the tab's section active; a click or key press calls
\* onChange once, with the new section, when it changes the active section
\* and not at all when it does not; initSectionSwitcher never calls it; no
\* call when the section asked for is already active or is not valid, and a
\* section that is not valid leaves the active section as it was
C16_OnChangeOnlyOnChange ==
    /\ navLast.op = "click" => activeSection = navLast.requested
    /\ ClickOrKey =>
            IF activeSection # navLast.before
            THEN onChangeCalls = <<activeSection>>
            ELSE onChangeCalls = <<>>
    /\ navLast.op = "initSectionSwitcher" => onChangeCalls = <<>>
    /\ (navLast.op # "none" /\ Requested = navLast.before) => onChangeCalls = <<>>
    /\ (navLast.op # "none" /\ Requested # Null /\ ~isValidSection(Requested)) =>
            /\ onChangeCalls = <<>>
            /\ activeSection = navLast.before

\* with two listener pairs on each tab, a click on the training tab while
\* architecture is active calls onChange('training') once
C16_Witness ==
    /\ navLast.op = "click" /\ navLast.requested = "training"
    /\ navLast.before = "architecture"
    /\ changeHandler = "function"
    /\ listeners = 2
    /\ activeSection = "training"
    /\ onChangeCalls = <<"training">>

\* the section after and the section before each section, with wrap-around
SectionAfter ==
    [t \in TabSections |->
        CASE t = "architecture" -> "training"
          [] t = "training" -> "inference"
          [] t = "inference" -> "architecture"]

SectionBefore == [t \in TabSections |-> CHOOSE u \in TabSections : SectionAfter[u] = t]

\* C17: after a key press on a tab the active section is the one after the
\* tab's section for ArrowRight, the one before it for ArrowLeft, architecture
\* for Home, inference for End, and for any other key what it was
C17_KeyboardNavigation ==
    navLast.op = "keydown" =>
        activeSection =
            CASE navLast.key = "ArrowRight" -> SectionAfter[navLast.requested]
              [] navLast.key = "ArrowLeft" -> SectionBefore[navLast.requested]
              [] navLast.key = "Home" -> "architecture"
              [] navLast.key = "End" -> "inference"
              [] OTHER -> navLast.before

\* ArrowLeft on the architecture tab while training is active wraps around
\* to inference
C17_Witness ==
    /\ navLast.op = "keydown" /\ navLast.key = "ArrowLeft"
    /\ navLast.requested = "architecture"
    /\ navLast.before = "training"
    /\ activeSection = "inference"
    /\ focused = "inference"

(***************************************************************************)
(* The tour's methods, on a value t of the tour.                           *)
(***************************************************************************)
\* a showStep that does not dispatch tour:switchSection
showStepSilent(t, index) ==
    IF index < 0 \/ index >= Len(TOUR_STEPS) THEN t
    ELSE LET step == TOUR_STEPS[index + 1]
         IN  [t EXCEPT !.currentStep = index,
                       !.title = step.title,
                       !.prevDisplay = IF index = 0 THEN "none" ELSE "inline-block",
                       !.nextText = IF step.isFinal THEN "Finish" ELSE "Next",
                       !.renderToken = t.renderToken + 1,
                       !.frames = Append(@, [token |-> t.renderToken + 1,
                                             index |-> index, stage |-> "first"])]

\* showStep(index): the step's texts, the buttons, tour:switchSection with
\* the step's section, and a new double requestAnimationFrame callback
showStep(t, index) ==
    IF index < 0 \/ index >= Len(TOUR_STEPS) THEN t
    ELSE LET step == TOUR_STEPS[index + 1]
         IN  [t EXCEPT !.currentStep = index,
                       !.title = step.title,
                       !.prevDisplay = IF index = 0 THEN "none" ELSE "inline-block",
                       !.nextText = IF step.isFinal THEN "Finish" ELSE "Next",
                       !.requested = IF step.section # Null THEN step.section ELSE @,
                       !.events = IF step.section # Null
                                  THEN Append(@, "tour:switchSection") ELSE @,
                       !.renderToken = t.renderToken + 1,
                       !.frames = Append(@, [token |-> t.renderToken + 1,
                                             index |-> index, stage |-> "first"])]

\* start()
start(t) ==
    showStep([t EXCEPT !.active = TRUE, !.currentStep = 0,
                       !.events = Append(@, "tour:ensureHome"),
                       !.shown = TRUE], 0)

\* complete(); onComplete is null
complete(t) ==
    [t EXCEPT !.active = FALSE, !.shown = FALSE, !.highlighted = Null,
              !.events = Append(@, "tour:clearHighlight")]

\* exit(); onExit is null
exit(t) ==
    [t EXCEPT !.active = FALSE, !.shown = FALSE, !.highlighted = Null,
              !.events = Append(@, "tour:clearHighlight")]

\* next()
next(t) ==
    IF t.currentStep >= Len(TOUR_STEPS) - 1 THEN complete(t)
    ELSE showStep(t, t.currentStep + 1)

\* prev()
prev(t) ==
    IF t.currentStep <= 0 THEN t ELSE showStep(t, t.currentStep - 1)

\* an inner callback that does not compare its token with renderToken
renderStepOfAnyToken(t, frame) ==
    IF ~t.active THEN t
    ELSE LET step == TOUR_STEPS[frame.index + 1]
         IN  [t EXCEPT !.centered = (step.position = "center"),
                       !.highlighted = step.componentKey,
                       !.events = Append(@, IF step.componentKey # Null
                                            THEN "tour:highlight"
                                            ELSE "tour:clearHighlight"),
                       !.stepChanges = IF t.onStepChange THEN Append(@, frame.index)
                                       ELSE @]

\* the inner requestAnimationFrame callback of showStep(index), frame its
\* token and index
renderStep(t, frame) ==
    IF ~t.active \/ frame.token # t.renderToken THEN t
    ELSE LET step == TOUR_STEPS[frame.index + 1]
         IN  [t EXCEPT !.centered = (step.position = "center"),
                       !.highlighted = step.componentKey,
                       !.events = Append(@, IF step.componentKey # Null
                                            THEN "tour:highlight"
                                            ELSE "tour:clearHighlight"),
                       !.stepChanges = IF t.onStepChange THEN Append(@, frame.index)
                                       ELSE @]

\* an animation frame runs the callbacks of queue from the i-th on: an
\* outer callback requests its inner one for the next frame, an inner one
\* renders
RECURSIVE runFrames(_, _, _)
runFrames(t, queue, i) ==
    IF i > Len(queue) THEN t
    ELSE CHOOSE result \in
            {runFrames(ran, queue, i + 1) :
                ran \in {IF queue[i].stage = "first"
                         THEN [t EXCEPT !.frames =
                                   Append(@, [queue[i] EXCEPT !.stage = "second"])]
                         ELSE renderStep(t, queue[i])}} : TRUE

\* an animation frame: the callbacks requested before it, in their order
animationFrame(t) == runFrames([t EXCEPT !.frames = <<>>], t.frames, 1)

\* the document's keydown listener
tourKeydown(t, key) ==
    IF ~t.active THEN t
    ELSE CASE key \in {"ArrowRight", "Enter"} -> next(t)
           [] key = "ArrowLeft" -> prev(t)
           [] key = "Escape" -> exit(t)
           [] OTHER -> t

\* the tour before an event's listeners run: nothing dispatched yet
TourNow == [tour EXCEPT !.events = <<>>, !.stepChanges = <<>>]

\* what tourLast keeps of an event: its name, its argument, and the step
\* and the activity before it
TourEvent(op, arg) ==
    [op |-> op, arg |-> arg, before |-> tour.currentStep, wasActive |-> tour.active]

\* the keys pressed while the page has the focus
TourKeys == {"ArrowRight", "Enter", "ArrowLeft", "Escape", "Tab"}

\* the indices goToStep is called with
StepIndices == -1..Len(TOUR_STEPS)

\* the showStep calls the model follows, and the callbacks that wait at a time
MaxShows == 4
MaxPending == 2

\* showStep may be called once more
CanShow == tour.renderToken < MaxShows /\ Len(tour.frames) < MaxPending

StartTour ==
    /\ CanShow
    /\ tour' = start(TourNow)
    /\ tourLast' = TourEvent("start", Null)
    /\ UNCHANGED <<tokVars, bpeVars, callVars, demoVars, frameVars, navVars>>

ClickTourNext ==
    /\ CanShow
    /\ tour' = next(TourNow)
    /\ tourLast' = TourEvent("next", Null)
    /\ UNCHANGED <<tokVars, bpeVars, callVars, demoVars, frameVars, navVars>>

ClickTourPrev ==
    /\ CanShow
    /\ tour' = prev(TourNow)
    /\ tourLast' = TourEvent("prev", Null)
    /\ UNCHANGED <<tokVars, bpeVars, callVars, demoVars, frameVars, navVars>>

\* the close button, or exitTour()
ClickTourClose ==
    /\ tour' = exit(TourNow)
    /\ tourLast' = TourEvent("close", Null)
    /\ UNCHANGED <<tokVars, bpeVars, callVars, demoVars, frameVars, navVars>>

\* a click on the overlay itself or on the spotlight inside it
ClickOverlay ==
    \E target \in {"overlay", "spotlight"} :
        /\ tour' = IF target = "overlay" THEN exit(TourNow) ELSE TourNow
        /\ tourLast' = TourEvent("overlay", target)
        /\ UNCHANGED <<tokVars, bpeVars, callVars, demoVars, frameVars, navVars>>

TourKeydown ==
    \E key \in TourKeys :
        /\ CanShow
        /\ tour' = tourKeydown(TourNow, key)
        /\ tourLast' = TourEvent("keydown", key)
        /\ UNCHANGED <<tokVars, bpeVars, callVars, demoVars, frameVars, navVars>>

GoToStep ==
    \E index \in StepIndices :
        /\ CanShow
        /\ tour' = showStep(TourNow, index)
        /\ tourLast' = TourEvent("goToStep", index)
        /\ UNCHANGED <<tokVars, bpeVars, callVars, demoVars, frameVars, navVars>>

\* the client sets tour.onStepChange
SetOnStepChange ==
    /\ ~tour.onStepChange
    /\ tour' = [TourNow EXCEPT !.onStepChange = TRUE]
    /\ tourLast' = TourEvent("onStepChange", Null)
    /\ UNCHANGED <<tokVars, bpeVars, callVars, demoVars, frameVars, navVars>>

\* an animation frame with callbacks waiting
AnimationFrame ==
    /\ tour.frames # <<>>
    /\ tour' = animationFrame(TourNow)
    /\ tourLast' = TourEvent("frame", Len(tour.frames))
    /\ UNCHANGED <<tokVars, bpeVars, callVars, demoVars, frameVars, navVars>>

TourNext ==
    \/ StartTour
    \/ ClickTourNext
    \/ ClickTourPrev
    \/ ClickTourClose
    \/ ClickOverlay
    \/ TourKeydown
    \/ GoToStep
    \/ SetOnStepChange
    \/ AnimationFrame

\* the tour: its events and calls in any order
TourSpec == UiInit /\ [][TourNext]_vars

\* the last event asked for the next step, for the previous step, or to leave
NextPressed ==
    \/ tourLast.op = "next"
    \/ tourLast.op = "keydown" /\ tourLast.wasActive /\ tourLast.arg \in {"ArrowRight", "Enter"}

PrevPressed ==
    \/ tourLast.op = "prev"
    \/ tourLast.op = "keydown" /\ tourLast.wasActive /\ tourLast.arg = "ArrowLeft"

ExitPressed ==
    \/ tourLast.op = "close"
    \/ tourLast.op = "overlay" /\ tourLast.arg = "overlay"
    \/ tourLast.op = "keydown" /\ tourLast.wasActive /\ tourLast.arg = "Escape"

\* the number of the last step, from 0
LastStep == 9

\* C18: start leaves the tour active at step 0; the step stays within
\* 0..last; next and prev move one step and the step they show is requested
\* with tour:switchSection, so that while the tour is active the section
\* last requested and the title are those of the current step (step 3 is
\* 'Training: Data' in training); prev at step 0 changes nothing; next on
\* the last step and every exit leave the tour inactive
C18_TourSteps ==
    /\ tourLast.op = "start" => tour.active /\ tour.currentStep = 0
    /\ tour.currentStep \in 0..LastStep
    /\ tour.active =>
            /\ tour.requested = TOUR_STEPS[tour.currentStep + 1].section
            /\ tour.title = TOUR_STEPS[tour.currentStep + 1].title
            /\ tour.shown
    /\ (tour.active /\ tour.currentStep = 3) =>
            tour.title = "Training: Data" /\ tour.requested = "training"
    /\ (NextPressed /\ tourLast.wasActive /\ tourLast.before < LastStep) =>
            /\ tour.active
            /\ tour.currentStep = tourLast.before + 1
            /\ tour.events = <<"tour:switchSection">>
    /\ (PrevPressed /\ tourLast.wasActive /\ tourLast.before > 0) =>
            /\ tour.active
            /\ tour.currentStep = tourLast.before - 1
            /\ tour.events = <<"tour:switchSection">>
    /\ (PrevPressed /\ tourLast.before = 0) =>
            /\ tour.currentStep = 0
            /\ tour.active = tourLast.wasActive
            /\ tour.events = <<>>
    /\ (NextPressed /\ tourLast.before = LastStep) => ~tour.active
    /\ ExitPressed => ~tour.active

\* the third next after start: the tour is active at step 3 and has just
\* requested the training section for 'Training: Data'
C18_Witness ==
    /\ tourLast.op = "next" /\ tourLast.wasActive /\ tourLast.before = 2
    /\ tour.active /\ tour.currentStep = 3
    /\ tour.title = "Training: Data"
    /\ tour.requested = "training"
    /\ tour.events = <<"tour:switchSection">>

(***************************************************************************)
(* generation-demo.js                                                      *)
(***************************************************************************)
\* Math.max(min, Math.min(max, value)) on numbers
clamp(value, min, max) ==
    IF IsNaN(value) \/ IsUndefined(value) THEN NaN
    ELSE IF Less(value, min) THEN min
    ELSE IF Greater(value, max) THEN max
    ELSE value

\* the first topK entries of the sorted list: indexed.slice(0, topK)
KeptIndices(indexed, topK) ==
    {indexed[q].i : q \in 1..(IF topK < Len(indexed) THEN topK ELSE Len(indexed))}

\* the second half of normalizeLogits: keep the topK most probable entries,
\* zero the others and divide by the sum (by 1 when the sum is 0 or NaN)
FilterAndScale(probs, topK) ==
    CHOOSE result \in
        UNION {{[i \in 1..Len(probs) |->
                    Over(filtered[i], IF sum = Zero \/ IsNaN(sum) THEN One ELSE sum)] :
                    sum \in {Sum(filtered)}} :
                  filtered \in
                    {[i \in 1..Len(probs) |-> IF (i - 1) \in keep THEN probs[i] ELSE Zero] :
                        keep \in {KeptIndices(indexed, topK) :
                            indexed \in {SortByProbDesc([i \in 1..Len(probs) |->
                                            [prob |-> probs[i], i |-> i - 1]])}}}} : TRUE

\* a normalizeLogits that keeps every entry tied with the topK-th
normalizeLogitsKeepTies(baseLogits, temperature, topK) ==
    normalize(applyTopK(softmax([i \in 1..Len(baseLogits) |->
                                    Over(baseLogits[i], temperature)]), topK))

\* normalizeLogits
normalizeLogits(baseLogits, temperature, topK) ==
    CHOOSE result \in
        {FilterAndScale(probs, topK) :
            probs \in {softmax(scaled) :
                scaled \in {[i \in 1..Len(logits) |-> Over(logits[i], temperature)] :
                    logits \in {baseLogits}}}} : TRUE

RECURSIVE SampleIndexFrom(_, _, _, _)
\* the loop of sampleIndex from index i (0-based) on, cumulative as it
\* stands before it
SampleIndexFrom(probs, roll, i, cumulative) ==
    IF i >= Len(probs) THEN Len(probs) - 1
    ELSE CHOOSE result \in
            {IF ~Greater(roll, sum) /\ ~IsNaN(sum) THEN i
             ELSE SampleIndexFrom(probs, roll, i + 1, sum) :
                sum \in {Plus(cumulative, probs[i + 1])}} : TRUE

\* sampleIndex, with roll the value Math.random() returned
sampleIndex(probs, roll) == SampleIndexFrom(probs, roll, 0, Zero)

\* the function Object, which TRANSITIONS['constructor'] finds on the
\* prototype chain: none of its own properties is a token of VOCAB
ObjectFunction == [name \in {} |-> Zero]

\* TRANSITIONS[lastToken] || TRANSITIONS['<bos>']
transitionOf(lastToken) ==
    IF lastToken \in DOMAIN TRANSITIONS THEN TRANSITIONS[lastToken]
    ELSE IF lastToken = "constructor" THEN ObjectFunction
    ELSE TRANSITIONS["<bos>"]

\* runDecodeStep: const baseLogits
baseLogitsOf(transition) ==
    [i \in 1..Len(VOCAB) |->
        IF VOCAB[i] \in DOMAIN transition THEN transition[VOCAB[i]] ELSE Frac(-35, 10)]

\* runDecodeStep: const lastToken
lastTokenOf(g) ==
    IF Len(g.generatedTokens) > 0 /\ g.generatedTokens[Len(g.generatedTokens)] # ""
    THEN g.generatedTokens[Len(g.generatedTokens)]
    ELSE "<bos>"

\* the slider positions the user sets
GenTemperatures == {Tenths(2), One}
GenTopKs == {1, 5}

\* normalizeLogits at the slider positions above, evaluated once per
\* (last token, temperature, top-k) and looked up by the steps
distributionAt ==
    [lastToken \in (DOMAIN TRANSITIONS) \cup {"<bos>"},
     temperature \in GenTemperatures, topK \in GenTopKs |->
        normalizeLogits(baseLogitsOf(transitionOf(lastToken)),
                        clamp(temperature, Tenths(2), Num(2)), topK)]

\* runDecodeStep: const distribution
distributionOf(g) ==
    IF <<lastTokenOf(g), g.temperature, g.topK>> \in DOMAIN distributionAt
    THEN distributionAt[lastTokenOf(g), g.temperature, g.topK]
    ELSE normalizeLogits(baseLogitsOf(transitionOf(lastTokenOf(g))),
                         clamp(g.temperature, Tenths(2), Num(2)), g.topK)

\* a decode step that stops at a '.' whatever the step count
DecodeWithEarlyStop(g, distribution, sampled) ==
    LET token == VOCAB[sampled + 1]
        stepCount == g.stepCount + 1
        generatedTokens == IF token # "<eos>" THEN Append(g.generatedTokens, token)
                           ELSE g.generatedTokens
        stop == token = "<eos>" \/ token = "." \/ stepCount >= g.maxTokens
    IN  [g EXCEPT !.lastDistribution =
                      SortByProbDesc([i \in 1..Len(VOCAB) |->
                                         [token |-> VOCAB[i], prob |-> distribution[i]]]),
                  !.stepCount = stepCount,
                  !.generatedTokens = generatedTokens,
                  !.kvCacheSize = Len(generatedTokens),
                  !.done = IF stop THEN TRUE ELSE @,
                  !.phase = IF stop THEN "done" ELSE @]

\* the rest of runDecodeStep, from the distribution and the sampled index on
DecodeWith(g, distribution, sampled) ==
    LET token == VOCAB[sampled + 1]
        shown == SortByProbDesc([i \in 1..Len(VOCAB) |->
                                    [token |-> VOCAB[i], prob |-> distribution[i]]])
        stepCount == g.stepCount + 1
        generatedTokens == IF token # "<eos>" THEN Append(g.generatedTokens, token)
                           ELSE g.generatedTokens
        punctuationDone == token = "." /\ stepCount >= 2
        eosDone == token = "<eos>"
        maxDone == stepCount >= g.maxTokens
        stop == eosDone \/ punctuationDone \/ maxDone
    IN  [g EXCEPT !.lastDistribution = shown,
                  !.stepCount = stepCount,
                  !.generatedTokens = generatedTokens,
                  !.kvCacheSize = Len(generatedTokens),
                  !.done = IF stop THEN TRUE ELSE @,
                  !.phase = IF stop THEN "done" ELSE @]

\* runDecodeStep, with roll the value Math.random() returns
runDecodeStep(g, roll) ==
    CHOOSE result \in
        UNION {{DecodeWith(g, distribution, sampled) :
                    sampled \in {sampleIndex(distribution, roll)}} :
                  distribution \in {distributionOf(g)}} : TRUE

\* promptText.toLowerCase().replace(/[^a-z\s.]/g, ' ')
RECURSIVE CleanFrom(_, _)
CleanFrom(s, i) ==
    IF i > Len(s) THEN ""
    ELSE (IF CharAt(s, i) \in CharSet(LowerCaseLetters) \cup {"."} \/ IsSpace(CharAt(s, i))
          THEN CharAt(s, i) ELSE " ") \o CleanFrom(s, i + 1)

RECURSIVE WordEnd(_, _)
\* the last position of the maximal run without white space that starts at i
WordEnd(s, i) ==
    IF i < Len(s) /\ ~IsSpace(CharAt(s, i + 1)) THEN WordEnd(s, i + 1) ELSE i

RECURSIVE WordsFrom(_, _)
\* cleaned.split(/\s+/).filter(Boolean), from position i on
WordsFrom(s, i) ==
    IF i > Len(s) THEN <<>>
    ELSE IF IsSpace(CharAt(s, i)) THEN WordsFrom(s, i + 1)
    ELSE <<SubSeq(s, i, WordEnd(s, i))>> \o WordsFrom(s, WordEnd(s, i) + 1)

\* runPrefill
runPrefill(g) ==
    CHOOSE result \in
        {[g EXCEPT !.tokens = promptTokens,
                   !.generatedTokens = promptTokens,
                   !.kvCacheSize = Len(promptTokens),
                   !.phase = "decode",
                   !.lastDistribution = <<>>] :
            promptTokens \in
                {IF Len(rawTokens) > 0 THEN rawTokens ELSE <<"the", "cat">> :
                    rawTokens \in
                        {WordsFrom(cleaned, 1) :
                            cleaned \in {CleanFrom(lower, 1) :
                                lower \in {toLowerCase(g.promptText)}}}}} : TRUE

\* nextStep (render() only draws)
nextStep(g, roll) ==
    IF g.done THEN g
    ELSE IF g.phase = "prefill" THEN runPrefill(g)
    ELSE runDecodeStep(g, roll)

\* resetState
resetState(g) ==
    [g EXCEPT !.phase = "prefill", !.promptText = "The cat", !.tokens = <<>>,
              !.generatedTokens = <<>>, !.kvCacheSize = 0, !.stepCount = 0,
              !.lastDistribution = <<>>, !.done = FALSE]

\* the id setInterval returns: one that no live timer has
FreshId(live) == CHOOSE id \in 1..(Cardinality(live) + 1) : id \notin live

\* stopAuto
stopAuto(g) ==
    IF g.timer # 0 THEN [g EXCEPT !.intervals = @ \ {g.timer}, !.timer = 0] ELSE g

\* a startAuto without its first line
startAutoWhenDone(g) ==
    [g EXCEPT !.timer = FreshId(g.intervals), !.intervals = @ \cup {FreshId(g.intervals)}]

\* startAuto
startAuto(g) ==
    IF g.done THEN g
    ELSE [g EXCEPT !.timer = FreshId(g.intervals),
                   !.intervals = @ \cup {FreshId(g.intervals)}]

\* promptInput.value.trim() || 'The cat'
PromptOf(value) == IF trim(value) = "" THEN "The cat" ELSE trim(value)

\* resetStateFromControls
resetStateFromControls(g) ==
    [resetState(stopAuto(g)) EXCEPT !.promptText = PromptOf(g.promptInput)]

\* init: stopAuto, resetState, the controls built anew with the prompt in
\* the input, the handlers bound
generationInit(g) ==
    [resetState(stopAuto(g)) EXCEPT !.promptInput = "The cat", !.bound = TRUE]

\* the callback startAuto gives to setInterval
autoTick(g, roll) ==
    CHOOSE result \in
        {IF stepped.done THEN stopAuto(stepped) ELSE stepped :
            stepped \in {nextStep(g, roll)}} : TRUE

\* what the user types into the prompt, sets the sliders to, and what
\* Math.random() returns
GenPrompts == {"the mat", "!?"}
GenRolls == {Zero, Frac(1, 2)}

\* the event op of the generation demo, which left the demo as after;
\* token is what the decode step of the event sampled (the token it
\* appended, <eos> when it appended none), "" when the event ran no decode
\* step
GenEvent(op, after) ==
    [op |-> op,
     token |-> IF op \in {"step", "tick"} /\ ~generation.done /\ generation.phase = "decode"
               THEN (IF Len(after.generatedTokens) > Len(generation.generatedTokens)
                     THEN after.generatedTokens[Len(after.generatedTokens)]
                     ELSE "<eos>")
               ELSE ""]

OtherDemosUnchanged(own) ==
    /\ IF own = "generation" THEN TRUE ELSE UNCHANGED genVars
    /\ IF own = "gradient" THEN TRUE ELSE UNCHANGED gradVars
    /\ IF own = "loss" THEN TRUE ELSE UNCHANGED lossVars
    /\ UNCHANGED <<tokVars, bpeVars, callVars, pageVars>>

\* the demo is opened: init()
GenOpen ==
    /\ generation' = generationInit(generation)
    /\ genLast' = GenEvent("init", generation)
    /\ OtherDemosUnchanged("generation")

\* 'change' on #generation-prompt
GenPromptChange ==
    /\ generation.bound
    /\ \E value \in GenPrompts :
        generation' = resetStateFromControls(
            [generation EXCEPT !.promptInput = value, !.promptText = PromptOf(value)])
    /\ genLast' = GenEvent("prompt", generation)
    /\ OtherDemosUnchanged("generation")

\* 'input' on #generation-temp
GenTemperatureInput ==
    /\ generation.bound
    /\ \E value \in GenTemperatures : generation' = [generation EXCEPT !.temperature = value]
    /\ genLast' = GenEvent("temperature", generation)
    /\ OtherDemosUnchanged("generation")

\* 'input' on #generation-topk
GenTopKInput ==
    /\ generation.bound
    /\ \E value \in GenTopKs : generation' = [generation EXCEPT !.topK = value]
    /\ genLast' = GenEvent("topK", generation)
    /\ OtherDemosUnchanged("generation")

\* 'click' on #generation-step
GenClickStep ==
    /\ generation.bound
    /\ \E roll \in GenRolls :
        \E after \in {nextStep(generation, roll)} :
            /\ generation' = after
            /\ genLast' = GenEvent("step", after)
    /\ OtherDemosUnchanged("generation")

\* 'click' on #generation-auto
GenClickAuto ==
    /\ generation.bound
    /\ generation' = IF generation.timer # 0 THEN stopAuto(generation)
                     ELSE startAuto(generation)
    /\ genLast' = GenEvent("auto", generation)
    /\ OtherDemosUnchanged("generation")

\* 'click' on #generation-reset
GenClickReset ==
    /\ generation.bound
    /\ generation' = resetStateFromControls(generation)
    /\ genLast' = GenEvent("reset", generation)
    /\ OtherDemosUnchanged("generation")

\* a live interval timer of the demo fires
GenTimerTick ==
    /\ generation.intervals # {}
    /\ \E roll \in GenRolls :
        \E after \in {autoTick(generation, roll)} :
            /\ generation' = after
            /\ genLast' = GenEvent("tick", after)
    /\ OtherDemosUnchanged("generation")

GenNext ==
    \/ GenOpen
    \/ GenPromptChange
    \/ GenTemperatureInput
    \/ GenTopKInput
    \/ GenClickStep
    \/ GenClickAuto
    \/ GenClickReset
    \/ GenTimerTick

GenSpec == UiInit /\ [][GenNext]_vars

(***************************************************************************)
(* Properties of the generation demo.                                      *)
(***************************************************************************)
\* the last event ran a decode step
DecodeStepRan == genLast.op \in {"step", "tick"} /\ genLast.token # ""

\* the stop criteria, from the sampled token and the decode-step count
StopCriterion(token, stepCount, maxTokens) ==
    \/ token = "<eos>"
    \/ token = "." /\ stepCount >= 2
    \/ stepCount >= maxTokens

\* what nextStep can change: everything of the demo but its timer
Progress(g) ==
    <<g.phase, g.tokens, g.generatedTokens, g.kvCacheSize, g.stepCount,
      g.lastDistribution, g.done, g.promptText, g.temperature, g.topK, g.maxTokens>>

C21_StopState ==
    /\ DecodeStepRan =>
        (generation.done <=>
            StopCriterion(genLast.token, generation.stepCount, generation.maxTokens))
    /\ generation.done <=> generation.phase = "done"
    /\ generation.stepCount <= generation.maxTokens
    /\ \A i \in 1..Len(generation.generatedTokens) : generation.generatedTokens[i] # "<eos>"

C21_DoneIsFinal ==
    generation.done /\ genLast'.op \in {"step", "tick"}
        => Progress(generation') = Progress(generation)

\* C21: a decode step marks generation as done exactly when the sampled
\* token is <eos>, or it is '.' and at least 2 decode steps have been taken,
\* or the decode-step count has reached maxTokens; once done, a Next Step
\* click or a timer tick changes nothing of the generation; the decode-step
\* count never exceeds maxTokens and <eos> is never among the generated
\* tokens.
C21_StopCriteria == []C21_StopState /\ [][C21_DoneIsFinal]_vars

\* a first decode step sampled '.', and generation goes on
C21_Witness ==
    /\ DecodeStepRan
    /\ genLast.token = "."
    /\ generation.stepCount = 1
    /\ ~generation.done

\* the distribution the last decode step sampled from, in the order of VOCAB
ShownDistribution ==
    [i \in 1..Len(VOCAB) |->
        (CHOOSE entry \in {generation.lastDistribution[q] :
                              q \in 1..Len(generation.lastDistribution)} :
            entry.token = VOCAB[i]).prob]

\* the generated tokens as they were before the last decode step
TokensBefore ==
    IF genLast.token = "<eos>" THEN generation.generatedTokens
    ELSE SubSeq(generation.generatedTokens, 1, Len(generation.generatedTokens) - 1)

\* the dense logit vector of the last decode step: the logit the transition
\* table gives a token after the last token, the fixed low logit for a
\* token the table does not name
DenseLogits ==
    LET lastToken == TokensBefore[Len(TokensBefore)]
        row == IF lastToken \in DOMAIN TRANSITIONS THEN TRANSITIONS[lastToken]
               ELSE IF lastToken = "constructor" THEN ObjectFunction
               ELSE TRANSITIONS["<bos>"]
    IN  [i \in 1..Len(VOCAB) |->
            IF VOCAB[i] \in DOMAIN row THEN row[VOCAB[i]] ELSE Frac(-35, 10)]

\* the probabilities before top-k
StepProbs == softmax(applyTemperature(DenseLogits, generation.temperature))

\* the sampling pipeline without top-p on the same logits
PipelineDistribution == normalize(applyTopK(StepProbs, generation.topK))

\* the entries that come first when the probabilities are put in
\* descending order, equal ones in the order of VOCAB
FirstK(probs, k) ==
    {i \in 1..Len(probs) :
        Cardinality({j \in 1..Len(probs) :
            Greater(probs[j], probs[i]) \/ (probs[j] = probs[i] /\ j < i)}) < k}

\* the topK-th and the (topK+1)-th largest probability are equal and not 0
TieAcrossCut(probs, k) ==
    /\ k < Len(probs)
    /\ \E i \in FirstK(probs, k) : \E j \in (1..Len(probs)) \ FirstK(probs, k) :
        probs[i] = probs[j] /\ probs[i] # Zero

\* C22 as stated: the distribution of every decode step is the output of
\* the pipeline temperature, softmax, applyTopK, normalize.
C22_AsStated == DecodeStepRan => ShownDistribution = PipelineDistribution

\* C22 (amended): the distribution a decode step samples from keeps exactly
\* the topK most probable tokens of softmax(logits / temperature), equal
\* ones in the order of VOCAB, and divides by their sum; it equals the
\* output of the pipeline (temperature, softmax, applyTopK, normalize)
\* whenever no tie of nonzero probabilities reaches across the cut.
C22_DecodeDistribution ==
    DecodeStepRan =>
        \E probs \in {StepProbs} :
            /\ ShownDistribution =
                   normalize([i \in 1..Len(probs) |->
                                 IF i \in FirstK(probs, generation.topK) THEN probs[i]
                                 ELSE Zero])
            /\ ~TieAcrossCut(probs, generation.topK)
                   => ShownDistribution = PipelineDistribution

\* a decode step whose top-k cut falls between tokens of equal probability
C22_Witness ==
    /\ DecodeStepRan
    /\ TieAcrossCut(StepProbs, generation.topK)
    /\ ShownDistribution # PipelineDistribution

\* a decode step without such a tie
C22_WitnessNoTie ==
    /\ DecodeStepRan
    /\ generation.topK = 5
    /\ ~TieAcrossCut(StepProbs, generation.topK)
    /\ Cardinality({i \in 1..Len(VOCAB) : ShownDistribution[i] # Zero}) = 5

\* the tokens top-k removed in the last decode step
RemovedByTopK ==
    {VOCAB[i] : i \in (1..Len(VOCAB)) \ FirstK(StepProbs, generation.topK)}

\* the probability the last decode step's distribution gives a token
ShownProbability(token) ==
    ShownDistribution[CHOOSE i \in 1..Len(VOCAB) : VOCAB[i] = token]

\* C26: a decode step never samples a token that top-k removed, whose
\* probability in that step's distribution is 0, whatever Math.random()
\* returns in [0, 1), 0 included.
C26_AsStated ==
    DecodeStepRan /\ genLast.token \in RemovedByTopK
        => ShownProbability(genLast.token) # Zero

\* setInterval calls its callback again and again while the timer lives
FairGenSpec == GenSpec /\ WF_vars(GenTimerTick)

C28_OneTimer ==
    /\ Cardinality(generation.intervals) <= 1
    /\ generation.intervals = IF generation.timer # 0 THEN {generation.timer} ELSE {}
    /\ generation.stepCount <= generation.maxTokens
    /\ generation.stepCount = generation.maxTokens => generation.done

C28_AutoWhenDone ==
    /\ generation.done /\ genLast'.op = "auto" => generation'.intervals = {}
    /\ generation.done /\ genLast'.op = "tick" =>
        /\ Progress(generation') = Progress(generation)
        /\ generation'.intervals = {}
        /\ generation'.timer = 0
    /\ ~generation.done /\ genLast'.op = "tick" =>
        \/ generation.phase = "prefill" /\ generation'.phase = "decode"
        \/ generation'.stepCount = generation.stepCount + 1
    /\ genLast'.op = "tick" /\ generation'.timer = 0 => generation'.done

\* C28: in every interleaving of Next Step clicks, Auto toggles, resets
\* and timer ticks at most one auto-run timer exists, and it is the one the
\* demo holds; auto-run is not started once generation is done; a tick that
\* finds generation done performs no step and clears the timer; every
\* other tick performs the prefill or one decode step, of which there are
\* at most maxTokens, and a tick clears the timer only when generation is
\* done; so under fair ticks a running timer is eventually cleared.
C28_AutoRun ==
    /\ []C28_OneTimer
    /\ [][C28_AutoWhenDone]_vars
    /\ (generation.timer # 0) ~> (generation.timer = 0)

\* generation was finished by a click while the timer runs
C28_Witness ==
    /\ generation.done
    /\ generation.timer # 0
    /\ genLast.op = "step"

(***************************************************************************)
(* Gradient demo (src/modules/gradient-demo.js).  The doubles of the demo  *)
(* are fixed-point integers in units of 1/Scale; a product of two of them  *)
(* is in units of 1/Scale^2 and is scaled back with Trunc or Rnd.          *)
(***************************************************************************)

\* a / b rounded toward zero, b > 0
Trunc(a, b) == IF a >= 0 THEN a \div b ELSE -((-a) \div b)

\* a / b rounded to nearest, b > 0
Rnd(a, b) == IF a >= 0 THEN (a + b \div 2) \div b ELSE -((b \div 2 - a) \div b)

\* clamp(value, min, max) of gradient-demo.js
clampUnits(value, min, max) ==
    IF value < min THEN min ELSE IF value > max THEN max ELSE value

\* Math.sin of x radians: x brought into [-pi/2, pi/2], then the Taylor
\* polynomial of degree 9 in Horner form
MathSin(x) ==
    LET pi == (31416 * Scale) \div 10000
        turned == ((x + pi) % (2 * pi)) - pi
        r == IF 2 * turned > pi THEN pi - turned
             ELSE IF 2 * turned < -pi THEN -pi - turned
             ELSE turned
    IN  CHOOSE s \in
            {Rnd(r * (Scale - Rnd(r2 * (Scale - Rnd(r2 * (Scale
                 - Rnd(r2 * (Scale - r2 \div 72), 42 * Scale)), 20 * Scale)),
                 6 * Scale)), Scale) :
                r2 \in {Rnd(r * r, Scale)}} : TRUE

\* Math.cos
MathCos(x) == MathSin(x + (15708 * Scale) \div 10000)

\* Math.sqrt of a non-negative integer, rounded down: bisection in lo..hi
RECURSIVE SqrtIn(_, _, _)
SqrtIn(n, lo, hi) ==
    IF lo >= hi THEN lo
    ELSE CHOOSE root \in
            {IF mid * mid <= n THEN SqrtIn(n, mid, hi) ELSE SqrtIn(n, lo, mid - 1) :
                mid \in {(lo + hi + 1) \div 2}} : TRUE

IntSqrt(n) == SqrtIn(n, 0, 46340)

gradientAt(x, y) ==
    CHOOSE grad \in
        {[dx |-> Rnd(24 * x, 100) + Rnd(128 * Rnd(cx * cy, Scale), 1000),
          dy |-> Rnd(84 * y, 100) - Rnd(112 * Rnd(sx * sy, Scale), 1000)] :
            cx \in {MathCos(Rnd(16 * x, 10))}, cy \in {MathCos(Rnd(14 * y, 10))},
            sx \in {MathSin(Rnd(16 * x, 10))}, sy \in {MathSin(Rnd(14 * y, 10))}} : TRUE

\* a * b for a and b in units of 1/Scale^2, by their limbs in base Scale
TimesFine(a, b) ==
    (a \div Scale) * (b \div Scale)
    + ((a \div Scale) * (b % Scale) + (a % Scale) * (b \div Scale)
       + ((a % Scale) * (b % Scale)) \div Scale) \div Scale

\* Math.pow(base, t) by squaring, base and the power in units of 1/Scale^2
RECURSIVE MathPow(_, _)
MathPow(base, t) ==
    IF t = 0 THEN Scale * Scale
    ELSE IF t % 2 = 1
         THEN CHOOSE p \in {TimesFine(base, q) : q \in {MathPow(base, t - 1)}} : TRUE
         ELSE CHOOSE p \in {TimesFine(h, h) : h \in {MathPow(base, t \div 2)}} : TRUE

\* Math.pow(beta1, t), beta1 = 0.9, in units of 1/Scale
Beta1Pow(t) == MathPow(9 * ((Scale * Scale) \div 10), t) \div Scale

\* Math.pow(beta2, t), beta2 = 0.999, in units of 1/Scale^2
Beta2Pow(t) == MathPow(999 * ((Scale * Scale) \div 1000), t)

\* beta1 * m + (1 - beta1) * d
FirstMoment(m, d) == Trunc(9 * m + d, 10)

\* beta2 * v + (1 - beta2) * d * d, the thousandths kept in the second limb
SecondMoment(v, vFrac, d) ==
    CHOOSE limbs \in
        {[v |-> v + s \div 1000, vFrac |-> s % 1000] :
            s \in {vFrac + d * d - v}} : TRUE

\* Math.sqrt(v / (1 - Math.pow(beta2, t))): the quotient by long division
\* in base 1000, then its root
SqrtVHat(v, vFrac, t) ==
    CHOOSE root \in
        UNION {{IntSqrt((v \div k) * 1000000 + ((r1 * 1000) \div k) * 1000
                        + (((r1 * 1000) % k) * 1000 + vFrac * 1000) \div k) :
                    r1 \in {v % k}} :
                  k \in {(Scale * Scale - Beta2Pow(t)) \div (Scale \div 100)}} : TRUE

\* product / (root + eps), eps = 1e-8, product in units of 1/Scale^2: past
\* 10 Scale the quotient is cut off, where the clamp of step() gives the
\* same point
OverRootPlusEps(product, root) ==
    IF root > 0 THEN clampUnits(Trunc(product, root), -(100 * Scale), 100 * Scale)
    ELSE clampUnits(product, -100, 100) * Scale

\* step(): the Adam branch
adamStep(g, dx, dy) ==
    CHOOSE stepped \in
        UNION {UNION {{[g EXCEPT !.t = t, !.m = m,
                              !.v = [x |-> vx.v, y |-> vy.v],
                              !.vFrac = [x |-> vx.vFrac, y |-> vy.vFrac],
                              !.point = [x |-> g.point.x - OverRootPlusEps(
                                              g.learningRate * Trunc(m.x * Scale, c1),
                                              SqrtVHat(vx.v, vx.vFrac, t)),
                                         y |-> g.point.y - OverRootPlusEps(
                                              g.learningRate * Trunc(m.y * Scale, c1),
                                              SqrtVHat(vy.v, vy.vFrac, t))]] :
                          c1 \in {Scale - Beta1Pow(t)}} :
                      vx \in {SecondMoment(g.v.x, g.vFrac.x, dx)},
                      vy \in {SecondMoment(g.v.y, g.vFrac.y, dy)}} :
                  t \in {g.t + 1},
                  m \in {[x |-> FirstMoment(g.m.x, dx), y |-> FirstMoment(g.m.y, dy)]}} : TRUE

\* step(): the plain gradient step
sgdStep(g, dx, dy) ==
    [g EXCEPT !.point = [x |-> g.point.x - Rnd(g.learningRate * dx, Scale),
                         y |-> g.point.y - Rnd(g.learningRate * dy, Scale)]]

\* step()
step(g) ==
    CHOOSE result \in
        {[moved EXCEPT !.point = [x |-> clampUnits(moved.point.x, -(5 * Scale), 5 * Scale),
                                  y |-> clampUnits(moved.point.y, -(5 * Scale), 5 * Scale)],
                       !.steps = g.steps + 1] :
            moved \in {IF g.optimizer = "adam" THEN adamStep(g, grad.dx, grad.dy)
                       ELSE sgdStep(g, grad.dx, grad.dy) :
                          grad \in {gradientAt(g.point.x, g.point.y)}}} : TRUE

\* gradientNorm()
gradientNorm(g) ==
    CHOOSE norm \in
        {IntSqrt(grad.dx * grad.dx + grad.dy * grad.dy) :
            grad \in {gradientAt(g.point.x, g.point.y)}} : TRUE

\* stopAutoRun()
stopAutoRun(g) ==
    IF g.timer # 0 THEN [g EXCEPT !.intervals = @ \ {g.timer}, !.timer = 0] ELSE g

\* startAutoRun()
startAutoRun(g) ==
    [g EXCEPT !.timer = FreshId(g.intervals), !.intervals = @ \cup {FreshId(g.intervals)}]

\* the click handler of #run-gradient without its test of this.timer
runToggleAlwaysStarts(g) == startAutoRun(g)

\* the click handler of #run-gradient
runToggle(g) == IF g.timer # 0 THEN stopAutoRun(g) ELSE startAutoRun(g)

\* the callback startAutoRun gives to setInterval
autoRunTick(g) ==
    CHOOSE result \in
        {IF stepped.steps >= 120 \/ gradientNorm(stepped) < (8 * Scale) \div 10000
         THEN stopAutoRun(stepped) ELSE stepped :
            stepped \in {step(g)}} : TRUE

\* a reset() that leaves the Adam state as it is
resetPointOnly(g) ==
    [stopAutoRun(g) EXCEPT !.point = [x |-> (36 * Scale) \div 10, y |-> -((22 * Scale) \div 10)],
                           !.steps = 0]

\* reset()
reset(g) ==
    [stopAutoRun(g) EXCEPT !.point = [x |-> (36 * Scale) \div 10, y |-> -((22 * Scale) \div 10)],
                           !.m = [x |-> 0, y |-> 0],
                           !.v = [x |-> 0, y |-> 0],
                           !.vFrac = [x |-> 0, y |-> 0],
                           !.t = 0,
                           !.steps = 0]

\* init()
gradientInit(g) == [stopAutoRun(g) EXCEPT !.bound = TRUE]

\* screenToModel(sx, sy, width, height), sx and sy in pixels
screenToModel(sx, sy, width, height) ==
    [x |-> Rnd(sx * 10 * Scale, width) - 5 * Scale,
     y |-> Rnd((height - sy) * 10 * Scale, height) - 5 * Scale]

\* boundMouseMove without the clamps of sx and sy
mouseMoveUnclamped(g, mouse) ==
    IF ~g.dragging THEN g
    ELSE [g EXCEPT !.point = screenToModel(mouse.x, mouse.y, 520, 320),
                   !.m = [x |-> 0, y |-> 0],
                   !.v = [x |-> 0, y |-> 0],
                   !.vFrac = [x |-> 0, y |-> 0],
                   !.t = 0,
                   !.steps = 0]

\* boundMouseMove; mouse is the pointer position within the svg, scaled to
\* lastWidth x lastHeight
boundMouseMove(g, mouse) ==
    IF ~g.dragging THEN g
    ELSE [g EXCEPT !.point = screenToModel(clampUnits(mouse.x, 0, 520),
                                           clampUnits(mouse.y, 0, 320), 520, 320),
                   !.m = [x |-> 0, y |-> 0],
                   !.v = [x |-> 0, y |-> 0],
                   !.vFrac = [x |-> 0, y |-> 0],
                   !.t = 0,
                   !.steps = 0]

\* the optimizers of #optimizer-select, the positions of #lr-slider the
\* user sets, and where the pointer is moved to
GradOptimizers == {"sgd", "adam"}
GradLearningRates == {(12 * Scale) \div 100, (40 * Scale) \div 100}
GradPointers == {[x |-> 600, y |-> 400], [x |-> 290, y |-> 150]}

\* the user events the model follows in one run of the gradient demo,
\* not counting openings, resets, pointer moves and releases
MaxGradEvents == 2

\* the event op of the gradient demo, which left the demo as after; ticks
\* counts the timer steps since the timer was started or the step count
\* was last set to 0, events the user events counted by MaxGradEvents,
\* dirty tells that a reset found Adam steps taken and the timer running
GradEvent(op, after) ==
    [op |-> op,
     ticks |-> IF op = "tick" THEN gradLast.ticks + 1
               ELSE IF op \in {"reset", "drag", "init"} THEN 0
               ELSE IF op = "run" /\ gradient.timer = 0 THEN 0
               ELSE gradLast.ticks,
     events |-> IF op \in {"tick", "init", "reset", "drag", "up"} THEN gradLast.events
                ELSE gradLast.events + 1,
     dirty |-> op = "reset" /\ gradient.t > 0 /\ gradient.timer # 0]

\* the demo is opened: init()
GradOpen ==
    /\ gradient' = gradientInit(gradient)
    /\ gradLast' = GradEvent("init", gradient)
    /\ OtherDemosUnchanged("gradient")

\* 'change' on #optimizer-select
GradOptimizerChange ==
    /\ gradient.bound
    /\ gradLast.events < MaxGradEvents
    /\ \E value \in GradOptimizers : gradient' = [gradient EXCEPT !.optimizer = value]
    /\ gradLast' = GradEvent("optimizer", gradient)
    /\ OtherDemosUnchanged("gradient")

\* 'input' on #lr-slider
GradLearningRateInput ==
    /\ gradient.bound
    /\ gradLast.events < MaxGradEvents
    /\ \E value \in GradLearningRates : gradient' = [gradient EXCEPT !.learningRate = value]
    /\ gradLast' = GradEvent("learningRate", gradient)
    /\ OtherDemosUnchanged("gradient")

\* 'click' on #step-gradient
GradClickStep ==
    /\ gradient.bound
    /\ gradLast.events < MaxGradEvents
    /\ gradient' = step(gradient)
    /\ gradLast' = GradEvent("step", gradient)
    /\ OtherDemosUnchanged("gradient")

\* 'click' on #run-gradient
GradClickRun ==
    /\ gradient.bound
    /\ gradLast.events < MaxGradEvents
    /\ gradient' = runToggle(gradient)
    /\ gradLast' = GradEvent("run", gradient)
    /\ OtherDemosUnchanged("gradient")

\* 'click' on #reset-gradient
GradClickReset ==
    /\ gradient.bound
    /\ gradient' = reset(gradient)
    /\ gradLast' = GradEvent("reset", gradient)
    /\ OtherDemosUnchanged("gradient")

\* 'mousedown' on the circle of the point
GradMouseDown ==
    /\ gradient.bound
    /\ gradLast.events < MaxGradEvents
    /\ gradient' = [gradient EXCEPT !.dragging = TRUE]
    /\ gradLast' = GradEvent("down", gradient)
    /\ OtherDemosUnchanged("gradient")

\* 'mousemove' on window while the point is dragged
GradMouseMove ==
    /\ gradient.bound
    /\ gradient.dragging
    /\ \E mouse \in GradPointers : gradient' = boundMouseMove(gradient, mouse)
    /\ gradLast' = GradEvent("drag", gradient)
    /\ OtherDemosUnchanged("gradient")

\* 'mouseup' on window
GradMouseUp ==
    /\ gradient.bound
    /\ gradient.dragging
    /\ gradient' = [gradient EXCEPT !.dragging = FALSE]
    /\ gradLast' = GradEvent("up", gradient)
    /\ OtherDemosUnchanged("gradient")

\* a live interval timer of the demo fires
GradTimerTick ==
    /\ gradient.intervals # {}
    /\ gradient' = autoRunTick(gradient)
    /\ gradLast' = GradEvent("tick", gradient)
    /\ OtherDemosUnchanged("gradient")

GradNext ==
    \/ GradOpen
    \/ GradOptimizerChange
    \/ GradLearningRateInput
    \/ GradClickStep
    \/ GradClickRun
    \/ GradClickReset
    \/ GradMouseDown
    \/ GradMouseMove
    \/ GradMouseUp
    \/ GradTimerTick

GradSpec == UiInit /\ [][GradNext]_vars

\* C23: in the gradient demo, after every step() with either optimizer and
\* after any sequence of steps, drags of the point, optimizer or
\* learning-rate changes and resets, point.x and point.y lie in [-5, 5].
C23_PointInRange ==
    /\ gradient.point.x >= -(5 * Scale) /\ gradient.point.x <= 5 * Scale
    /\ gradient.point.y >= -(5 * Scale) /\ gradient.point.y <= 5 * Scale

\* the point was dragged past the corner of the surface and stepped once
C23_Witness ==
    /\ gradLast.op = "tick"
    /\ gradient.steps = 1
    /\ gradient.point.x > 4 * Scale
    /\ gradient.point.y < -(4 * Scale)

\* C24: after any sequence of SGD steps, Adam steps, drags and optimizer
\* changes, reset() restores the initial optimizer state: point
\* (3.6, -2.2), first and second moments (0, 0), t = 0 and step count 0.
C24_ResetRestores ==
    gradLast.op = "reset" =>
        /\ gradient.point = GradientConstructed.point
        /\ gradient.m = [x |-> 0, y |-> 0]
        /\ gradient.v = [x |-> 0, y |-> 0]
        /\ gradient.vFrac = [x |-> 0, y |-> 0]
        /\ gradient.t = 0
        /\ gradient.steps = 0

\* a reset after Adam steps of a running timer
C24_Witness == gradLast.op = "reset" /\ gradLast.dirty

\* setInterval calls its callback again and again while the timer lives
FairGradSpec == GradSpec /\ WF_vars(GradTimerTick)

C30_OneTimer ==
    /\ Cardinality(gradient.intervals) <= 1
    /\ gradient.intervals = IF gradient.timer # 0 THEN {gradient.timer} ELSE {}
    /\ gradLast.op \in {"reset", "init"} => gradient.timer = 0
    /\ gradLast.op = "tick" =>
        (gradient.timer = 0 <=>
            gradient.steps >= 120 \/ gradientNorm(gradient) < (8 * Scale) \div 10000)
    /\ gradLast.ticks <= 120

C30_WitnessNorm ==
    /\ gradLast.op = "tick"
    /\ gradient.steps < 120
    /\ gradient.timer = 0

(***************************************************************************)
(* Loss demo (src/unnamed/part_002).  The logits are multiples of 1/1000:  *)
(* the product lr * grad of a train step is rounded to the nearest one.    *)
(***************************************************************************)

\* x to the nearest multiple of 1/1000
RoundThousandth(x) == Frac(Rnd(x.n * 1000, x.d), 1000)

\* trainStep: the body of the loop for one logit, prob its probability and
\* target 1 for the target token, 0 for the others
LogitAfter(logit, learningRate, prob, target) ==
    clamp(Minus(logit, RoundThousandth(Times(learningRate, Minus(prob, Num(target))))),
          Num(-8), Num(8))

\* a loop of trainStep that takes the softmax anew for every logit
RECURSIVE TrainLoopFrom(_, _, _)
TrainLoopFrom(l, logits, i) ==
    IF i > Len(logits) THEN logits
    ELSE CHOOSE result \in
            {TrainLoopFrom(l, [logits EXCEPT ![i] =
                                  LogitAfter(logits[i], l.learningRate, probs[i],
                                             IF i - 1 = l.targetIndex THEN 1 ELSE 0)],
                           i + 1) :
                probs \in {softmax(logits)}} : TRUE

trainStepSoftmaxInLoop(l) ==
    [l EXCEPT !.logits = TrainLoopFrom(l, l.logits, 1), !.steps = l.steps + 1]

\* trainStep()
trainStep(l) ==
    CHOOSE result \in
        {[l EXCEPT !.logits = [i \in 1..Len(l.logits) |->
                                  LogitAfter(l.logits[i], l.learningRate, probs[i],
                                             IF i - 1 = l.targetIndex THEN 1 ELSE 0)],
                   !.steps = l.steps + 1] :
            probs \in {softmax(l.logits)}} : TRUE

\* stopAuto()
lossStopAuto(l) ==
    IF l.timer # 0 THEN [l EXCEPT !.intervals = @ \ {l.timer}, !.timer = 0] ELSE l

\* startAuto()
lossStartAuto(l) ==
    [l EXCEPT !.timer = FreshId(l.intervals), !.intervals = @ \cup {FreshId(l.intervals)}]

\* the callback startAuto gives to setInterval
lossAutoTick(l) ==
    CHOOSE result \in
        {IF Greater(softmax(trained.logits)[trained.targetIndex + 1], Frac(98, 100))
            \/ trained.steps >= 200
         THEN lossStopAuto(trained) ELSE trained :
            trained \in {trainStep(l)}} : TRUE

\* reset()
lossReset(l) ==
    [lossStopAuto(l) EXCEPT !.logits = LossConstructed.logits, !.steps = 0]

\* init()
lossInit(l) == [lossStopAuto(l) EXCEPT !.bound = TRUE]

\* the tokens of #target-token and the positions of #loss-lr the user
\* chooses
LossTargets == {0, 3}
LossLearningRates == {Tenths(2), Tenths(7)}

\* the train steps the model follows between two resets
MaxLossSteps == 4

\* the demo is opened: init()
LossOpen ==
    /\ lossDemo' = lossInit(lossDemo)
    /\ lossLast' = [op |-> "init"]
    /\ OtherDemosUnchanged("loss")

\* 'change' on #target-token
LossTargetChange ==
    /\ lossDemo.bound
    /\ \E value \in LossTargets : lossDemo' = [lossDemo EXCEPT !.targetIndex = value]
    /\ lossLast' = [op |-> "target"]
    /\ OtherDemosUnchanged("loss")

\* 'input' on #loss-lr
LossLearningRateInput ==
    /\ lossDemo.bound
    /\ \E value \in LossLearningRates : lossDemo' = [lossDemo EXCEPT !.learningRate = value]
    /\ lossLast' = [op |-> "learningRate"]
    /\ OtherDemosUnchanged("loss")

\* 'click' on #loss-step
LossClickStep ==
    /\ lossDemo.bound
    /\ lossDemo.steps < MaxLossSteps
    /\ lossDemo' = trainStep(lossDemo)
    /\ lossLast' = [op |-> "step"]
    /\ OtherDemosUnchanged("loss")

\* 'click' on #loss-auto
LossClickAuto ==
    /\ lossDemo.bound
    /\ lossDemo' = IF lossDemo.timer # 0 THEN lossStopAuto(lossDemo)
                   ELSE lossStartAuto(lossDemo)
    /\ lossLast' = [op |-> "auto"]
    /\ OtherDemosUnchanged("loss")

\* 'click' on #loss-reset
LossClickReset ==
    /\ lossDemo.bound
    /\ lossDemo' = lossReset(lossDemo)
    /\ lossLast' = [op |-> "reset"]
    /\ OtherDemosUnchanged("loss")

\* a live interval timer of the demo fires
LossTimerTick ==
    /\ lossDemo.intervals # {}
    /\ lossDemo.steps < MaxLossSteps
    /\ lossDemo' = lossAutoTick(lossDemo)
    /\ lossLast' = [op |-> "tick"]
    /\ OtherDemosUnchanged("loss")

LossNext ==
    \/ LossOpen
    \/ LossTargetChange
    \/ LossLearningRateInput
    \/ LossClickStep
    \/ LossClickAuto
    \/ LossClickReset
    \/ LossTimerTick

LossSpec == UiInit /\ [][LossNext]_vars

C25_InRange ==
    \A i \in 1..Len(lossDemo.logits) :
        /\ ~Less(lossDemo.logits[i], Num(-8))
        /\ ~Greater(lossDemo.logits[i], Num(8))

C25_StepRule ==
    lossLast'.op \in {"step", "tick"} =>
        /\ lossDemo'.steps = lossDemo.steps + 1
        /\ \A i \in 1..Len(lossDemo.logits) :
            lossDemo'.logits[i] =
                clamp(Minus(lossDemo.logits[i],
                            RoundThousandth(Times(lossDemo.learningRate,
                                Minus(softmax(lossDemo.logits)[i],
                                      IF i - 1 = lossDemo.targetIndex THEN One ELSE Zero)))),
                      Num(-8), Num(8))

C27_Recorded ==
    /\ \A k \in 1..Len(mergeSteps) :
        /\ Join(mergeSteps[k].tokens) = trim(toLowerCase(text))
        /\ mergeSteps[k].step = k - 1
        /\ k > 1 => Len(mergeSteps[k].tokens) = Len(mergeSteps[k - 1].tokens) - 1
    /\ bpePc \in {"loop", "done"} =>
        /\ Join(currentTokens) = trim(toLowerCase(text))
        /\ Len(mergeSteps) - 1 <= IF Len(trim(toLowerCase(text))) > 0
                                  THEN Len(trim(toLowerCase(text))) - 1 ELSE 0

\* C27: at every recorded step of simulateBPE the concatenation of the
\* step's tokens is the lowercased, trimmed input text, mergeSteps[k].step
\* is k, and each merge step has one token less than the step before;
\* so totalMerges <= max(0, length of the normalized text - 1) and the
\* final tokens concatenate to the normalized text.
C27_StepsKeepText ==
    /\ C27_Recorded
    /\ bpePc = "done" =>
        /\ bpeResult.mergeSteps = mergeSteps
        /\ bpeResult.totalMerges = Len(mergeSteps) - 1
        /\ bpeResult.totalMerges <= IF Len(trim(toLowerCase(text))) > 0
                                    THEN Len(trim(toLowerCase(text))) - 1 ELSE 0
        /\ Join([i \in 1..Len(bpeResult.finalTokens) |-> bpeResult.finalTokens[i].text])
               = trim(toLowerCase(text))

\* a text with a capital and a space around it was merged twice
C27_Witness ==
    /\ bpePc = "done"
    /\ bpeResult.totalMerges >= 2
    /\ text # trim(toLowerCase(text))
    /\ toLowerCase(text) # trim(toLowerCase(text))

\* the inner callbacks an animation frame is about to run whose token is
\* still the renderToken
CurrentCallbacks ==
    {i \in 1..Len(tour.frames) :
        tour.frames[i].stage = "second" /\ tour.frames[i].token = tour.renderToken}

C29_Frame ==
    tourLast'.op = "frame" =>
        /\ tour'.active = tour.active
        /\ tour'.currentStep = tour.currentStep
        /\ tour'.renderToken = tour.renderToken
        /\ IF tour.active /\ CurrentCallbacks # {}
           THEN /\ \A i \in CurrentCallbacks : tour.frames[i].index = tour.currentStep
                /\ tour'.centered = (TOUR_STEPS[tour.currentStep + 1].position = "center")
                /\ tour'.highlighted = TOUR_STEPS[tour.currentStep + 1].componentKey
                /\ tour'.events =
                       <<IF TOUR_STEPS[tour.currentStep + 1].componentKey # Null
                         THEN "tour:highlight" ELSE "tour:clearHighlight">>
                /\ tour'.stepChanges = IF tour.onStepChange THEN <<tour.currentStep>>
                                       ELSE <<>>
           ELSE /\ tour'.centered = tour.centered
                /\ tour'.highlighted = tour.highlighted
                /\ tour'.events = <<>>
                /\ tour'.stepChanges = <<>>

C29_StepChanges ==
    /\ \A i \in 1..Len(tour.stepChanges) :
        tour.stepChanges[i] = tour.currentStep /\ tour.active /\ tourLast.op = "frame"
    /\ Cardinality({i \in 1..Len(tour.frames) :
                       tour.frames[i].token = tour.renderToken}) <= 1
    /\ \A i \in 1..Len(tour.frames) : tour.frames[i].token <= tour.renderToken

\* C29: the inner callback of showStep positions the tooltip, dispatches
\* tour:highlight or tour:clearHighlight and calls onStepChange only if the
\* tour is active and its token is still renderToken; in every
\* interleaving of next, prev, exit, complete, start and goToStep with
\* animation frames a frame has these effects once, for the current step,
\* when the tour is active and the callback of the last showStep is due,
\* and no effect otherwise; onStepChange is only called with the index of
\* the current step.
C29_DeferredRender == []C29_StepChanges /\ [][C29_Frame]_vars

\* one frame ran two inner callbacks, the superseded one without effect,
\* and onStepChange was called once, with the current step
C29_Witness ==
    /\ tourLast.op = "frame"
    /\ tourLast.arg = 2
    /\ tour.frames = <<>>
    /\ tour.currentStep = 1
    /\ tour.stepChanges = <<1>>

\* a frame ran the callback of a tour that was exited
C29_WitnessExited ==
    /\ tourLast.op = "frame"
    /\ ~tour.active
    /\ tour.frames = <<>>
    /\ tour.events = <<>>
====
